---- MODULE Spec2Model ----
(***************************************************************************)
(* Model of the namespace-isolation node daemons:                          *)
(*   - the quota controller (pkg/agent): informer store, rate-limited      *)
(*     work queue, single reconcile worker, cgroup slice manager;          *)
(*   - the routing plugin's quota cache (pkg/plugin/cache.go);             *)
(*   - the pure parsing helpers of pkg/agent/cgroup.go.                    *)
(*                                                                         *)
(* Text values (cpu, memory) are sequences of one-character strings, so    *)
(* that parsing is computed character by character.  Object names and      *)
(* namespace names are plain strings drawn from one universe, Names: the   *)
(* controller uses a queue key (an object name) where a namespace name is  *)
(* expected, so the two must be comparable.                                *)
(***************************************************************************)
EXTENDS Integers, Sequences, FiniteSets, TLC

\* ------------------------------------------------------------------ bounds
Names == {"a", "b"}
MaxEvents == 3
MaxFaults == 1
MaxCpuLen == 4
MaxCores == 200

\* ------------------------------------------------------- program constants
maxRetries == 5
DefaultCPUPeriod == 100000

\* ------------------------------------------------------------ text helpers
Digits == {"0", "1", "2", "3", "4", "5", "6", "7", "8", "9"}

DigitVal(c) ==
    CASE c = "0" -> 0 [] c = "1" -> 1 [] c = "2" -> 2 [] c = "3" -> 3
      [] c = "4" -> 4 [] c = "5" -> 5 [] c = "6" -> 6 [] c = "7" -> 7
      [] c = "8" -> 8 [] c = "9" -> 9 [] OTHER -> 0

RECURSIVE Pow10(_)
Pow10(n) == IF n = 0 THEN 1 ELSE 10 * Pow10(n - 1)

RECURSIVE DropLeadingSpace(_)
DropLeadingSpace(s) ==
    IF s # <<>> /\ Head(s) = " " THEN DropLeadingSpace(Tail(s)) ELSE s

RECURSIVE DropTrailingSpace(_)
DropTrailingSpace(s) ==
    IF s # <<>> /\ s[Len(s)] = " "
    THEN DropTrailingSpace(SubSeq(s, 1, Len(s) - 1))
    ELSE s

TrimSpace(s) == DropTrailingSpace(DropLeadingSpace(s))

\* Value of a run of decimal digits.
RECURSIVE DigitsValue(_)
DigitsValue(s) ==
    IF s = <<>> THEN 0
    ELSE DigitsValue(SubSeq(s, 1, Len(s) - 1)) * 10 + DigitVal(s[Len(s)])

AllDigits(s) == \A i \in 1..Len(s) : s[i] \in Digits

\* Positions of the decimal point in s.
DotPositions(s) == {i \in 1..Len(s) : s[i] = "."}

\* An unsigned decimal "ddd", "ddd.", ".ddd" or "ddd.ddd" with at least one
\* digit, as mant / 10^scale.  ok = FALSE for anything else.
ParseUnsignedDecimal(s) ==
    LET dots == DotPositions(s) IN
    IF Cardinality(dots) > 1 THEN [ok |-> FALSE, mant |-> 0, scale |-> 0]
    ELSE IF dots = {} THEN
        IF s # <<>> /\ AllDigits(s)
        THEN [ok |-> TRUE, mant |-> DigitsValue(s), scale |-> 0]
        ELSE [ok |-> FALSE, mant |-> 0, scale |-> 0]
    ELSE
        LET p == CHOOSE i \in dots : TRUE
            ip == SubSeq(s, 1, p - 1)
            fp == SubSeq(s, p + 1, Len(s))
        IN  IF AllDigits(ip) /\ AllDigits(fp) /\ Len(ip) + Len(fp) > 0
            THEN [ok |-> TRUE, mant |-> DigitsValue(ip \o fp), scale |-> Len(fp)]
            ELSE [ok |-> FALSE, mant |-> 0, scale |-> 0]

\* strconv.ParseFloat on the decimal forms without exponent: an optional
\* sign followed by an unsigned decimal.
ParseFloat(s) ==
    LET signed == s # <<>> /\ Head(s) \in {"-", "+"}
        body == IF signed THEN Tail(s) ELSE s
        u == ParseUnsignedDecimal(body)
    IN  [ok |-> u.ok, neg |-> signed /\ Head(s) = "-",
         mant |-> u.mant, scale |-> u.scale]

\* Inputs (length at most MaxCpuLen + 1 over CpuAlphabet, plus CpuExamples)
\* for which the float64 product cores * 100000.0 lies just below the exact
\* product, so that the int64 conversion yields one less (IEEE-754 double
\* evaluation of cgroup.go:205, tabulated).
FloatShort ==
    { <<"5", ".", "1">>, <<"0", "5", ".", "1">>, <<"1", ".", "1", "5">>,
      <<"5", ".", "1", "0">>, <<"0", "0", "5", ".", "1">>,
      <<"0", "1", ".", "1", "5">>, <<"0", "5", ".", "1", "0">>,
      <<"1", ".", "0", "0", "1">>, <<"1", ".", "0", "0", "5">>,
      <<"1", ".", "0", "1", "1">>, <<"1", ".", "0", "1", "5">>,
      <<"1", ".", "1", "5", "0">>, <<"5", ".", "0", "1", "5">>,
      <<"5", ".", "1", "0", "0">>, <<".", "1", "5", "5", "1">>,
      <<".", "5", "0", "0", "5">>, <<".", "5", "0", "1", "5">>,
      <<".", "5", "0", "5", "5">>, <<".", "5", "1", "0", "5">>,
      <<".", "5", "1", "1", "5">>, <<".", "5", "1", "5", "5">> }

\* floor(mant / 10^scale * DefaultCPUPeriod), computed by shifting decimals
\* so that no intermediate exceeds the exact result.
ExactQuota(mant, scale) ==
    LET ip == mant \div Pow10(scale)
        fp == mant % Pow10(scale)
    IN  ip * DefaultCPUPeriod +
        (IF scale <= 5 THEN fp * Pow10(5 - scale) ELSE fp \div Pow10(scale - 5))

\* ParseCPU converts CPU cores to a microsecond quota per period.
ParseCPU(cpu) ==
    LET s == TrimSpace(cpu)
        f == ParseFloat(s)
    IN  IF s = <<>> THEN [ok |-> FALSE, quota |-> 0]
        ELSE IF ~f.ok THEN [ok |-> FALSE, quota |-> 0]
        ELSE IF f.neg \/ f.mant = 0 THEN [ok |-> FALSE, quota |-> 0]
        ELSE [ok |-> TRUE,
              quota |-> ExactQuota(f.mant, f.scale)
                          - (IF s \in FloatShort THEN 1 ELSE 0)]

\* cpuPercent of setCPULimitViaSystemd: integer division.
CpuPercent(cpuQuota) == (cpuQuota * 100) \div DefaultCPUPeriod

\* The quota the service manager enforces for CPUQuota=<pct>% over the
\* default 100 ms period.
EnforcedQuota(pct) == (pct * DefaultCPUPeriod) \div 100

\* ------------------------------------------------------------ byte counts
\* A byte count is five base-1024 limbs <<bytes, K, M, G, T>> (least
\* significant first; the T limb is unbounded), so that counts of 2^31 and
\* more keep their exact value.
RECURSIVE ToLimbs(_, _)
ToLimbs(v, k) ==
    IF k = 1 THEN <<v>> ELSE <<v % 1024>> \o ToLimbs(v \div 1024, k - 1)

\* The n limbs below the unit limb of frac / 10^scale units, most
\* significant first, truncating what lies below one byte.
RECURSIVE FracLimbs(_, _, _)
FracLimbs(frac, scale, n) ==
    IF n = 0 THEN <<>>
    ELSE <<(frac * 1024) \div Pow10(scale)>>
           \o FracLimbs((frac * 1024) % Pow10(scale), scale, n - 1)

Reverse(s) == [i \in 1..Len(s) |-> s[Len(s) + 1 - i]]

\* floor(mant / 10^scale * 1024^exp) as limbs (int64(value * multiplier)).
ScaleBytes(mant, scale, exp) ==
    Reverse(FracLimbs(mant % Pow10(scale), scale, exp))
        \o ToLimbs(mant \div Pow10(scale), 5 - exp)

MemorySuffixes ==
    { <<"K", "i">>, <<"M", "i">>, <<"G", "i">>, <<"T", "i">>,
      <<"K">>, <<"M">>, <<"G">>, <<"T">>, <<"k">>, <<"m">>, <<"g">>, <<"t">> }

\* strings.ToUpper of a suffix, then the multiplier switch, as the power
\* of 1024.
SuffixExp(suffix) ==
    IF suffix = <<>> THEN 0
    ELSE CASE Head(suffix) \in {"K", "k"} -> 1
           [] Head(suffix) \in {"M", "m"} -> 2
           [] Head(suffix) \in {"G", "g"} -> 3
           [] OTHER -> 4

\* Length of the longest prefix of s made of digits and decimal points.
RECURSIVE NumberPrefixLen(_)
NumberPrefixLen(s) ==
    IF s # <<>> /\ Head(s) \in Digits \cup {"."}
    THEN 1 + NumberPrefixLen(Tail(s))
    ELSE 0

\* ParseMemory: ^(\d+(?:\.\d+)?)\s*(Ki|Mi|Gi|Ti|K|M|G|T|k|m|g|t)?$ on the
\* trimmed text, value times the binary multiplier, truncated.
ParseMemory(memory) ==
    LET s == TrimSpace(memory)
        n == NumberPrefixLen(s)
        num == SubSeq(s, 1, n)
        suffix == DropLeadingSpace(SubSeq(s, n + 1, Len(s)))
        u == ParseUnsignedDecimal(num)
        matches == /\ n > 0
                   /\ u.ok
                   /\ num[1] \in Digits
                   /\ num[n] \in Digits
                   /\ suffix \in MemorySuffixes \cup {<<>>}
    IN  IF s = <<>> THEN [ok |-> FALSE, bytes |-> <<0, 0, 0, 0, 0>>]
        ELSE IF ~matches THEN [ok |-> FALSE, bytes |-> <<0, 0, 0, 0, 0>>]
        ELSE [ok |-> TRUE, bytes |-> ScaleBytes(u.mant, u.scale, SuffixExp(suffix))]

\* A rendering in whole gigabytes whenever the count reaches one.
formatMemoryWholeGigabytes(bytes) ==
    IF bytes[4] > 0 \/ bytes[5] > 0
    THEN [n |-> SubSeq(bytes, 4, 5), unit |-> 3]
    ELSE [n |-> bytes, unit |-> 0]

\* formatMemoryForSystemd: the largest of G, M, K that divides the count,
\* as [n |-> quotient limbs, unit |-> power of 1024].
formatMemoryForSystemd(bytes) ==
    IF (bytes[4] > 0 \/ bytes[5] > 0) /\ bytes[1] = 0 /\ bytes[2] = 0 /\ bytes[3] = 0
    THEN [n |-> SubSeq(bytes, 4, 5), unit |-> 3]
    ELSE IF (bytes[3] > 0 \/ bytes[4] > 0 \/ bytes[5] > 0) /\ bytes[1] = 0 /\ bytes[2] = 0
    THEN [n |-> SubSeq(bytes, 3, 5), unit |-> 2]
    ELSE IF (bytes[2] > 0 \/ bytes[3] > 0 \/ bytes[4] > 0 \/ bytes[5] > 0) /\ bytes[1] = 0
    THEN [n |-> SubSeq(bytes, 2, 5), unit |-> 1]
    ELSE [n |-> bytes, unit |-> 0]

\* strconv's decimal text of a natural number (the %d of Sprintf).
RECURSIVE Itoa(_)
Itoa(n) ==
    IF n < 10 THEN <<CHOOSE c \in Digits : DigitVal(c) = n>>
    ELSE Itoa(n \div 10) \o <<CHOOSE c \in Digits : DigitVal(c) = n % 10>>

\* The number a limb sequence stands for, least significant limb first.
RECURSIVE LimbsValue(_)
LimbsValue(l) ==
    IF l = <<>> THEN 0 ELSE Head(l) + 1024 * LimbsValue(Tail(l))

\* formatMemoryForSystemd's text: "%dG", "%dM", "%dK" or "%d".
MemoryText(m) ==
    Itoa(LimbsValue(m.n)) \o
      (CASE m.unit = 3 -> <<"G">> [] m.unit = 2 -> <<"M">>
         [] m.unit = 1 -> <<"K">> [] OTHER -> <<>>)

\* The byte count the service manager reads back from MemoryMax=<n><unit>.
MemoryMaxBytes(m) == [i \in 1..5 |-> IF i <= m.unit THEN 0 ELSE m.n[i - m.unit]]

\* ------------------------------------------------------------ declarations
\* Text values a declaration carries in the controller model.
CpuStrings == { <<>>, <<"4">>, <<"2">>, <<"f", "o", "u", "r">> }
MemStrings == { <<>>, <<"8", "G", "i">>, <<"i", "n", "v", "a", "l", "i", "d">> }

\* An object of the informer store as GetByKey returns it: exists = FALSE
\* stands for "no object under this key".
Absent ==
    [exists |-> FALSE, namespace |-> "", cpu |-> <<>>, memory |-> <<>>,
     enabled |-> FALSE]

Declarations ==
    [exists : {TRUE}, namespace : Names, cpu : CpuStrings,
     memory : MemStrings, enabled : BOOLEAN]

BothLimits == [cpu |-> <<"4">>, memory |-> <<"8", "G", "i">>]
NoLimits == [cpu |-> <<>>, memory |-> <<>>]
BadMemory == [cpu |-> <<"4">>, memory |-> <<"i", "n", "v", "a", "l", "i", "d">>]

BadCpu == [cpu |-> <<"f", "o", "u", "r">>, memory |-> <<"8", "G", "i">>]

Limits(d) == [cpu |-> d.cpu, memory |-> d.memory]

\* The declarations applied under object name key in the slice-lifecycle
\* specification: any namespace, enabled or not, both limits or none.
SliceDeclarations(key) ==
    { d \in Declarations : Limits(d) \in {BothLimits, NoLimits} }

\* The declarations applied under object name key in the retry
\* specification: enabled, named after their namespace, with limits that
\* parse or a memory value that does not.
RetryDeclarations(key) ==
    { d \in Declarations :
        d.enabled /\ d.namespace = key /\ Limits(d) \in {BothLimits, BadMemory} }

\* The declarations applied under object name key in the recovery
\* specification: enabled, named after their namespace, with a cpu limit
\* and with or without a memory limit.
RecoverDeclarations(key) ==
    { d \in Declarations :
        /\ d.enabled /\ d.namespace = key
        /\ d.cpu = BothLimits.cpu /\ d.memory \in {<<>>, BothLimits.memory} }

\* The declarations applied under object name key in the limit-change
\* specification: enabled, named after their namespace, cpu "4" or "2"
\* and the memory limit.
LimitDeclarations(key) ==
    { d \in Declarations :
        /\ d.enabled /\ d.namespace = key
        /\ d.cpu \in {<<"4">>, <<"2">>} /\ d.memory = BothLimits.memory }

\* The declarations applied under object name key in the
\* namespace-change specification: enabled, with both limits, targeting
\* any namespace.
MovedDeclarations(key) ==
    { d \in Declarations : d.enabled /\ Limits(d) = BothLimits }

\* The declarations applied under object name key in the fail-open
\* specification, named after their namespace: object a is enabled and
\* has cpu "4" with the memory limit or cpu "2" with a memory value that
\* does not parse; the others keep both limits and are enabled or not.
FailOpenDeclarations(key) ==
    { d \in Declarations :
        /\ d.namespace = key
        /\ d.cpu \in {<<"4">>, <<"2">>}
        /\ d.memory \in {BothLimits.memory, BadMemory.memory}
        /\ key = "a" => d.enabled
        /\ key # "a" => Limits(d) = BothLimits
        /\ (d.cpu = <<"2">>) <=> (d.memory = BadMemory.memory) }

\* The declarations applied under object name key in the convergence
\* specification: one object, enabled, named after its namespace, both
\* limits.
ConvergeDeclarations(key) ==
    { d \in Declarations :
        /\ key = "a"
        /\ d.enabled /\ d.namespace = key /\ Limits(d) = BothLimits }

\* The declarations applied under object name key in the parse-failure
\* specification: enabled, named after their namespace, with a cpu or a
\* memory value that does not parse.
UnparsableDeclarations(key) ==
    { d \in Declarations :
        d.enabled /\ d.namespace = key /\ Limits(d) \in {BadCpu, BadMemory} }

\* ParseNamespaceQuota: the namespace field is required.
ParseNamespaceQuota(obj) ==
    IF obj.namespace = ""
    THEN [ok |-> FALSE, Namespace |-> "", CPU |-> <<>>, Memory |-> <<>>,
          Enabled |-> FALSE]
    ELSE [ok |-> TRUE, Namespace |-> obj.namespace, CPU |-> obj.cpu,
          Memory |-> obj.memory, Enabled |-> obj.enabled]

\* ---------------------------------------------------- unstructured objects
\* A value of a field of an unstructured object: absent, a string, a
\* boolean or a number.
Missing == [kind |-> "absent", str |-> "", bool |-> FALSE]
Str(s) == [kind |-> "string", str |-> s, bool |-> FALSE]
Bool(b) == [kind |-> "bool", str |-> "", bool |-> b]
Number == [kind |-> "number", str |-> "", bool |-> FALSE]

\* The declaration objects tried: spec absent, spec not a map, or a map
\* whose namespace, cpu and enabled fields are absent or hold a value of
\* the right or of another type.
NoObject == [spec |-> "absent", namespace |-> Missing, cpu |-> Missing,
             enabled |-> Missing]
UnstructuredObjects ==
    { NoObject, [NoObject EXCEPT !.spec = "scalar"] } \cup
    [ spec : {"map"},
      namespace : {Missing, Number, Str(""), Str("a"), Str("b")},
      cpu : {Missing, Number, Str("4")},
      enabled : {Missing, Bool(TRUE), Bool(FALSE), Str("false"), Str("true")} ]

\* unstructured.NestedMap(u.Object, "spec"): not found when absent, an
\* error when the value is not a map.
NestedMap(u) ==
    [found |-> u.spec = "map", err |-> u.spec = "scalar"]

\* unstructured.NestedString(spec, field): not found when absent, an
\* error (and "") when the value is not a string.
NestedString(v) ==
    [val |-> IF v.kind = "string" THEN v.str ELSE "",
     found |-> v.kind = "string",
     err |-> v.kind \notin {"absent", "string"}]

\* unstructured.NestedBool(spec, field): not found when absent, an error
\* (and false) when the value is not a boolean.
NestedBool(v) ==
    [val |-> v.kind = "bool" /\ v.bool,
     found |-> v.kind = "bool",
     err |-> v.kind \notin {"absent", "bool"}]

\* QuotaCache.extractNamespace on the object as the watch delivers it.
extractNamespaceUnstructured(u) ==
    IF NestedMap(u).err \/ ~NestedMap(u).found THEN ""
    ELSE IF NestedString(u.namespace).err \/ ~NestedString(u.namespace).found
    THEN ""
    ELSE NestedString(u.namespace).val

\* An isEnabled that takes a value that is not a boolean for false.
isEnabledStrict(u) ==
    IF NestedMap(u).err \/ ~NestedMap(u).found THEN TRUE
    ELSE IF NestedBool(u.enabled).err THEN FALSE
    ELSE IF ~NestedBool(u.enabled).found THEN TRUE
    ELSE NestedBool(u.enabled).val

\* QuotaCache.isEnabled on the object as the watch delivers it.
isEnabledUnstructured(u) ==
    IF NestedMap(u).err \/ ~NestedMap(u).found THEN TRUE
    ELSE IF NestedBool(u.enabled).err \/ ~NestedBool(u.enabled).found THEN TRUE
    ELSE NestedBool(u.enabled).val

\* ParseNamespaceQuota on the object as the informer store holds it.
NotASpec == [ok |-> FALSE, text |-> "", Namespace |-> "", CPU |-> "",
             Enabled |-> FALSE]
ParseNamespaceQuotaUnstructured(u) ==
    IF NestedMap(u).err \/ ~NestedMap(u).found
    THEN [NotASpec EXCEPT !.text = "spec not found in NamespaceQuota"]
    ELSE IF NestedString(u.namespace).val = ""
    THEN [NotASpec EXCEPT !.text = "namespace field is required"]
    ELSE [ok |-> TRUE, text |-> "",
          Namespace |-> NestedString(u.namespace).val,
          CPU |-> NestedString(u.cpu).val,
          Enabled |-> IF NestedBool(u.enabled).found
                      THEN NestedBool(u.enabled).val ELSE TRUE]

\* Nothing has been made of the object yet.
NotInterpreted ==
    [plugin |-> FALSE, ns |-> "", enabled |-> FALSE,
     agent |-> FALSE, parsed |-> NotASpec]

\* ------------------------------------------------------------ slice manager
cgroupRoot == "/sys/fs/cgroup"
slicePrefix == <<"brasa", ".slice">>

\* strings.TrimSuffix(name, ".slice") on a tokenised unit name.
TrimSliceSuffix(name) ==
    IF name # <<>> /\ name[Len(name)] = ".slice"
    THEN SubSeq(name, 1, Len(name) - 1)
    ELSE name

\* getSliceName of a manager made with the given slice prefix.
SliceNameFor(prefix, namespace) ==
    TrimSliceSuffix(prefix) \o <<"-", namespace, ".slice">>

getSliceName(namespace) == SliceNameFor(slicePrefix, namespace)

GetSlicePath(namespace) == <<cgroupRoot, slicePrefix, getSliceName(namespace)>>

\* The cgroup directory the service manager keeps for a slice unit
\* "<parent>-<child>.slice": nested under "<parent>.slice".
UnitCgroupPath(unit) ==
    LET stem == TrimSliceSuffix(unit)
        dashes == {i \in 1..Len(stem) : stem[i] = "-"}
        last == CHOOSE i \in dashes : \A j \in dashes : j <= i
    IN  IF dashes = {} THEN <<cgroupRoot, unit>>
        ELSE <<cgroupRoot, SubSeq(stem, 1, last - 1) \o <<".slice">>, unit>>

\* Limits of a freshly made cgroup directory: cpu.max and memory.max
\* read "max", cgroup.subtree_control is empty (ctl tells that the
\* required controllers were written to it).  NoCpuLimit and NoMemLimit
\* stand for "max".
NoCpuLimit == -1
NoMemLimit == <<>>
FreshCgroup == [cpuMax |-> NoCpuLimit, memMax |-> NoMemLimit, ctl |-> FALSE]

\* Outcomes of the host-side steps of one reconcile, chosen by the host,
\* and of its status write and event emission, chosen by the API server.
\* A reconcile stops at its first failing host step, so outcomes with one
\* failing step cover all of them.
HostOutcomes ==
    { h \in [parentOk : BOOLEAN, mkdirOk : BOOLEAN, cpuOk : BOOLEAN,
             memOk : BOOLEAN, rmdirOk : BOOLEAN, statusOk : BOOLEAN,
             eventOk : BOOLEAN, ctlOk : BOOLEAN] :
        Cardinality({f \in DOMAIN h : ~h[f]}) <= 1 }

NoFault ==
    [parentOk |-> TRUE, mkdirOk |-> TRUE, cpuOk |-> TRUE, memOk |-> TRUE,
     rmdirOk |-> TRUE, statusOk |-> TRUE, eventOk |-> TRUE, ctlOk |-> TRUE]

\* os.MkdirAll(slicePath): keeps an existing directory as it is.
MkdirAll(cg, path) ==
    IF path \in DOMAIN cg THEN cg
    ELSE [p \in DOMAIN cg \cup {path} |-> IF p = path THEN FreshCgroup ELSE cg[p]]

\* os.Remove(slicePath).
Rmdir(cg, path) == [p \in DOMAIN cg \ {path} |-> cg[p]]

\* A set-property that would add the quota to the one in force.
SetCpuMaxAccumulates(cg, path, quota) ==
    [cg EXCEPT ![path].cpuMax = IF @ = NoCpuLimit THEN quota ELSE @ + quota]

\* A set-property that would leave a quota in force as it is.
SetCpuMaxOnce(cg, path, quota) ==
    [cg EXCEPT ![path].cpuMax = IF @ = NoCpuLimit THEN quota ELSE @]

\* systemctl set-property <unit> CPUQuota=<pct>% --runtime, when it succeeds.
SetCpuMax(cg, path, quota) == [cg EXCEPT ![path].cpuMax = quota]

setCPULimitViaSystemd(cg, namespace, cpuQuota) ==
    SetCpuMax(MkdirAll(cg, UnitCgroupPath(getSliceName(namespace))),
              UnitCgroupPath(getSliceName(namespace)),
              EnforcedQuota(CpuPercent(cpuQuota)))

\* systemctl set-property <unit> MemoryMax=<value> --runtime, when it
\* succeeds.
SetMemMax(cg, path, bytes) == [cg EXCEPT ![path].memMax = bytes]

setMemoryLimitViaSystemd(cg, namespace, memoryBytes) ==
    SetMemMax(MkdirAll(cg, UnitCgroupPath(getSliceName(namespace))),
              UnitCgroupPath(getSliceName(namespace)),
              MemoryMaxBytes(formatMemoryForSystemd(memoryBytes)))

\* The systemctl set-property invocations: the unit, the property and
\* its value (a percentage for CPUQuota, a count and unit for MemoryMax).
NoMemoryValue == [n |-> <<>>, unit |-> 0]
CpuCommand(namespace, cpuQuota) ==
    [unit |-> getSliceName(namespace), prop |-> "CPUQuota",
     pct |-> CpuPercent(cpuQuota), mem |-> NoMemoryValue]
MemoryCommand(namespace, memoryBytes) ==
    [unit |-> getSliceName(namespace), prop |-> "MemoryMax",
     pct |-> 0, mem |-> formatMemoryForSystemd(memoryBytes)]

\* EnsureSlice's last step taking a memory value that does not parse for no limit.
EnsureMemoryLenient(cg, namespace, memoryLimit, memory, host, cmds) ==
    IF memoryLimit = <<>> \/ ~memory.ok
    THEN [err |-> FALSE, cg |-> cg, text |-> "", cmds |-> cmds]
    ELSE IF ~host.memOk
    THEN [err |-> TRUE, cg |-> cg, text |-> "failed to set memory limit",
          cmds |-> Append(cmds, MemoryCommand(namespace, memory.bytes))]
    ELSE [err |-> FALSE,
          cg |-> setMemoryLimitViaSystemd(cg, namespace, memory.bytes),
          text |-> "",
          cmds |-> Append(cmds, MemoryCommand(namespace, memory.bytes))]

\* A last step that takes the CPU limit back when the memory limit fails.
EnsureMemoryUndoesCpu(cg, namespace, memoryLimit, memory, host, cmds) ==
    IF memoryLimit = <<>> THEN [err |-> FALSE, cg |-> cg, text |-> "", cmds |-> cmds]
    ELSE IF ~memory.ok
    THEN [err |-> TRUE, cg |-> SetCpuMax(cg, GetSlicePath(namespace), NoCpuLimit),
          text |-> "failed to parse memory limit", cmds |-> cmds]
    ELSE IF ~host.memOk
    THEN [err |-> TRUE, cg |-> SetCpuMax(cg, GetSlicePath(namespace), NoCpuLimit),
          text |-> "failed to set memory limit",
          cmds |-> Append(cmds, MemoryCommand(namespace, memory.bytes))]
    ELSE [err |-> FALSE,
          cg |-> setMemoryLimitViaSystemd(cg, namespace, memory.bytes),
          text |-> "",
          cmds |-> Append(cmds, MemoryCommand(namespace, memory.bytes))]

\* EnsureSlice, last step: the memory limit, if one is set.  cmds are the
\* set-property invocations made so far; text is the error EnsureSlice
\* returns.
EnsureMemory(cg, namespace, memoryLimit, memory, host, cmds) ==
    IF memoryLimit = <<>> THEN [err |-> FALSE, cg |-> cg, text |-> "", cmds |-> cmds]
    ELSE IF ~memory.ok
    THEN [err |-> TRUE, cg |-> cg, text |-> "failed to parse memory limit",
          cmds |-> cmds]
    ELSE IF ~host.memOk
    THEN [err |-> TRUE, cg |-> cg, text |-> "failed to set memory limit",
          cmds |-> Append(cmds, MemoryCommand(namespace, memory.bytes))]
    ELSE [err |-> FALSE,
          cg |-> setMemoryLimitViaSystemd(cg, namespace, memory.bytes),
          text |-> "",
          cmds |-> Append(cmds, MemoryCommand(namespace, memory.bytes))]

\* EnsureSlice leaving the CPU limit out.
EnsureCPUSkipped(cg, namespace, cpuLimit, cpu, memoryLimit, host) ==
    EnsureMemory(cg, namespace, memoryLimit, ParseMemory(memoryLimit), host, <<>>)

\* EnsureSlice, the step before: the CPU limit, if one is set.
EnsureCPU(cg, namespace, cpuLimit, cpu, memoryLimit, host) ==
    IF cpuLimit = <<>>
    THEN EnsureMemory(cg, namespace, memoryLimit, ParseMemory(memoryLimit),
                      host, <<>>)
    ELSE IF ~cpu.ok
    THEN [err |-> TRUE, cg |-> cg, text |-> "failed to parse CPU limit",
          cmds |-> <<>>]
    ELSE IF ~host.cpuOk
    THEN [err |-> TRUE, cg |-> cg, text |-> "failed to set CPU limit",
          cmds |-> <<CpuCommand(namespace, cpu.quota)>>]
    ELSE EnsureMemory(setCPULimitViaSystemd(cg, namespace, cpu.quota),
                      namespace, memoryLimit, ParseMemory(memoryLimit), host,
                      <<CpuCommand(namespace, cpu.quota)>>)

\* enableControllers(slicePath): writes the required controllers into
\* cgroup.subtree_control of the directory.
enableControllers(cg, path, host) ==
    IF host.ctlOk THEN [err |-> FALSE, cg |-> [cg EXCEPT ![path].ctl = TRUE]]
    ELSE [err |-> TRUE, cg |-> cg]

\* An EnsureSlice that returns the error of enableControllers in the
\* child slice.
EnsureSliceStrictControllers(cg, namespace, cpuLimit, memoryLimit, host) ==
    IF ~host.parentOk
    THEN [err |-> TRUE, cg |-> cg, text |-> "failed to ensure parent slice",
          cmds |-> <<>>]
    ELSE IF ~host.mkdirOk
    THEN [err |-> TRUE, cg |-> cg, text |-> "failed to create slice directory",
          cmds |-> <<>>]
    ELSE IF ~host.ctlOk
    THEN [err |-> TRUE, cg |-> MkdirAll(cg, GetSlicePath(namespace)),
          text |-> "failed to create slice directory", cmds |-> <<>>]
    ELSE EnsureCPU(enableControllers(MkdirAll(cg, GetSlicePath(namespace)),
                                     GetSlicePath(namespace), host).cg,
                   namespace, cpuLimit, ParseCPU(cpuLimit), memoryLimit, host)

\* An EnsureSlice that removes the slice directory when a step fails.
EnsureSliceCleansUp(cg, namespace, cpuLimit, memoryLimit, host) ==
    IF ~host.parentOk \/ ~host.mkdirOk
    THEN [err |-> TRUE, cg |-> Rmdir(cg, GetSlicePath(namespace)),
          text |-> "failed to ensure parent slice", cmds |-> <<>>]
    ELSE [EnsureCPU(MkdirAll(cg, GetSlicePath(namespace)), namespace,
                    cpuLimit, ParseCPU(cpuLimit), memoryLimit, host)
            EXCEPT !.cg =
              IF EnsureCPU(MkdirAll(cg, GetSlicePath(namespace)), namespace,
                           cpuLimit, ParseCPU(cpuLimit), memoryLimit, host).err
              THEN Rmdir(@, GetSlicePath(namespace)) ELSE @]

\* EnsureSlice: parent slice, child directory, child controllers (result
\* ignored), CPU limit if set, memory limit if set.  Returns the error
\* (flag and text), the cgroup tree as the steps that ran left it, and the
\* set-property invocations made.
EnsureSlice(cg, namespace, cpuLimit, memoryLimit, host) ==
    IF ~host.parentOk
    THEN [err |-> TRUE, cg |-> cg, text |-> "failed to ensure parent slice",
          cmds |-> <<>>]
    ELSE IF ~host.mkdirOk
    THEN [err |-> TRUE, cg |-> cg, text |-> "failed to create slice directory",
          cmds |-> <<>>]
    ELSE EnsureCPU(enableControllers(MkdirAll(cg, GetSlicePath(namespace)),
                                     GetSlicePath(namespace), host).cg,
                   namespace, cpuLimit, ParseCPU(cpuLimit), memoryLimit, host)

\* A removal without the existence check: rmdir of a missing directory
\* is an error.
RemoveSliceUnchecked(cg, namespace, host) ==
    IF GetSlicePath(namespace) \notin DOMAIN cg \/ ~host.rmdirOk
    THEN [err |-> TRUE, cg |-> cg]
    ELSE [err |-> FALSE, cg |-> Rmdir(cg, GetSlicePath(namespace))]

\* RemoveSlice: rmdir after an existence check; "does not exist" is success.
RemoveSlice(cg, namespace, host) ==
    IF GetSlicePath(namespace) \notin DOMAIN cg
    THEN [err |-> FALSE, cg |-> cg]
    ELSE IF ~host.rmdirOk THEN [err |-> TRUE, cg |-> cg]
    ELSE [err |-> FALSE, cg |-> Rmdir(cg, GetSlicePath(namespace))]

SliceExists(cg, namespace) == GetSlicePath(namespace) \in DOMAIN cg

\* ------------------------------------------------------------ reconciler
\* What a reconcile reports: the status it asks updateStatus to write
\* (none for a deleted object) and the events it emits.
NoStatus == [written |-> FALSE, ready |-> FALSE, message |-> <<>>]
Status(ready, message) == [written |-> TRUE, ready |-> ready, message |-> message]
Event(type, reason) == [type |-> type, reason |-> reason]

\* A handleDelete that returns the error of RemoveSlice.
handleDeleteReturnsError(cg, name, host) ==
    [err |-> RemoveSlice(cg, name, host).err,
     cg |-> RemoveSlice(cg, name, host).cg,
     status |-> NoStatus,
     events |-> IF RemoveSlice(cg, name, host).err THEN <<>>
                ELSE <<Event("Normal", "CgroupRemoved")>>,
     cmds |-> <<>>]

\* handleDelete: removes the slice named after the queue key; a failure to
\* remove is logged and the reconcile succeeds.
handleDelete(cg, name, host) ==
    [err |-> FALSE, cg |-> RemoveSlice(cg, name, host).cg,
     status |-> NoStatus,
     events |-> IF RemoveSlice(cg, name, host).err THEN <<>>
                ELSE <<Event("Normal", "CgroupRemoved")>>,
     cmds |-> <<>>]

\* A report that calls the slice configured whatever EnsureSlice returned.
EnsuredAlways(r) ==
    [err |-> r.err, cg |-> r.cg,
     status |-> Status(TRUE, <<"Cgroup configured successfully">>),
     events |-> <<Event("Normal", "CgroupConfigured")>>,
     cmds |-> r.cmds]

\* handleQuota, enabled: the report that goes with the result of EnsureSlice.
Ensured(r) ==
    IF r.err
    THEN [err |-> TRUE, cg |-> r.cg,
          status |-> Status(FALSE, <<"Cgroup error: ", r.text>>),
          events |-> <<Event("Warning", "CgroupFailed")>>,
          cmds |-> r.cmds]
    ELSE [err |-> FALSE, cg |-> r.cg,
          status |-> Status(TRUE, <<"Cgroup configured successfully">>),
          events |-> <<Event("Normal", "CgroupConfigured")>>,
          cmds |-> r.cmds]

\* handleQuota returning the error of a failed removal for a disabled
\* quota, as it does for an enabled one.
handleQuotaStrict(cg, spec, host) ==
    IF spec.Enabled
    THEN Ensured(EnsureSlice(cg, spec.Namespace, spec.CPU, spec.Memory, host))
    ELSE IF RemoveSlice(cg, spec.Namespace, host).err
    THEN [err |-> TRUE, cg |-> cg,
          status |-> Status(FALSE, <<"Cgroup error: ", "failed to remove slice">>),
          events |-> <<Event("Warning", "CgroupFailed")>>,
          cmds |-> <<>>]
    ELSE [err |-> FALSE, cg |-> RemoveSlice(cg, spec.Namespace, host).cg,
          status |-> Status(TRUE, <<"Quota disabled">>),
          events |-> <<Event("Normal", "QuotaDisabled")>>,
          cmds |-> <<>>]

\* handleQuota: a disabled quota has its slice removed (a failure to
\* remove is logged), an enabled one has it ensured.
handleQuota(cg, spec, host) ==
    IF ~spec.Enabled
    THEN [err |-> FALSE, cg |-> RemoveSlice(cg, spec.Namespace, host).cg,
          status |-> Status(TRUE, <<"Quota disabled">>),
          events |-> <<Event("Normal", "QuotaDisabled")>>,
          cmds |-> <<>>]
    ELSE Ensured(EnsureSlice(cg, spec.Namespace, spec.CPU, spec.Memory, host))

\* c.informer.GetStore().GetByKey(key)
GetByKey(st, key) == st[key]

\* reconcile, after the object was read from the informer store.
reconcileObject(cg, key, obj, host) ==
    IF ~obj.exists THEN handleDelete(cg, key, host)
    ELSE IF ~ParseNamespaceQuota(obj).ok
    THEN [err |-> TRUE, cg |-> cg,
          status |-> Status(FALSE, <<"Parse error: ", "namespace field is required">>),
          events |-> <<Event("Warning", "CgroupFailed")>>,
          cmds |-> <<>>]
    ELSE handleQuota(cg, ParseNamespaceQuota(obj), host)

\* updateStatus and EmitEventForObject as the API server answers them:
\* whether the status asked for was stored and the events were recorded.
\* A failure is logged; nothing is returned to the reconcile.
updateStatus(status, host) == status.written /\ host.statusOk
EmitEventForObject(events, host) == events # <<>> /\ host.eventOk

\* The reconcile made a report that did not reach the API server.
Unreported(r, host) ==
    \/ r.status.written /\ ~updateStatus(r.status, host)
    \/ r.events # <<>> /\ ~EmitEventForObject(r.events, host)

\* A reconcile that would return the error of a failed status write.
reconcileReportsStrictly(st, cg, key, host) ==
    IF Unreported(reconcileObject(cg, key, GetByKey(st, key), host), host)
    THEN [reconcileObject(cg, key, GetByKey(st, key), host) EXCEPT !.err = TRUE]
    ELSE reconcileObject(cg, key, GetByKey(st, key), host)

\* reconcile: re-reads the object under the key from the informer store.
reconcile(st, cg, key, host) == reconcileObject(cg, key, GetByKey(st, key), host)

\* ------------------------------------------------------------ work queue
\* The rate-limited work queue as a record: queue (ready keys in order),
\* dirty (keys that need processing), processing (keys handed to the
\* worker), waitingForAdd (keys delayed by AddAfter), failures (the
\* per-key count of the exponential-failure rate limiter), shuttingDown
\* (ShutDown was called).
NewQueue ==
    [queue |-> <<>>, dirty |-> {}, processing |-> {}, waitingForAdd |-> {},
     failures |-> [k \in Names |-> 0], shuttingDown |-> FALSE]

\* Add that appends the key whether or not it is already waiting.
WqAddNoDedupe(q, key) ==
    IF key \in q.processing THEN [q EXCEPT !.dirty = @ \cup {key}]
    ELSE [q EXCEPT !.dirty = @ \cup {key}, !.queue = Append(@, key)]

\* Add that queues a key that is in flight at once instead of marking it.
WqAddQueuesInFlight(q, key) ==
    IF key \in q.dirty THEN q
    ELSE [q EXCEPT !.dirty = @ \cup {key}, !.queue = Append(@, key)]

\* workqueue.Add
WqAdd(q, key) ==
    IF q.shuttingDown THEN q
    ELSE IF key \in q.dirty THEN q
    ELSE IF key \in q.processing THEN [q EXCEPT !.dirty = @ \cup {key}]
    ELSE [q EXCEPT !.dirty = @ \cup {key}, !.queue = Append(@, key)]

\* workqueue.Get (queue not empty)
WqGet(q) ==
    [q EXCEPT !.queue = Tail(@),
              !.processing = @ \cup {Head(q.queue)},
              !.dirty = @ \ {Head(q.queue)}]

\* Done that forgets that the key was added while it was in flight.
WqDoneDropsPending(q, key) ==
    [q EXCEPT !.processing = @ \ {key}, !.dirty = @ \ {key}]

\* Done that queues the key again whether or not it was added meanwhile.
WqDoneRequeues(q, key) ==
    [q EXCEPT !.processing = @ \ {key}, !.dirty = @ \cup {key},
              !.queue = Append(@, key)]

\* workqueue.Done
WqDone(q, key) ==
    IF key \in q.dirty
    THEN [q EXCEPT !.processing = @ \ {key}, !.queue = Append(@, key)]
    ELSE [q EXCEPT !.processing = @ \ {key}]

\* workqueue.NumRequeues
NumRequeues(q, key) == q.failures[key]

\* workqueue.Forget
Forget(q, key) == [q EXCEPT !.failures[key] = 0]

\* An AddRateLimited whose limiter keeps one count for all keys.
AddRateLimitedShared(q, key) ==
    IF q.shuttingDown THEN [q EXCEPT !.failures = [k \in Names |-> @[k] + 1]]
    ELSE [q EXCEPT !.failures = [k \in Names |-> @[k] + 1],
                   !.waitingForAdd = @ \cup {key}]

\* workqueue.AddRateLimited: the limiter counts one more failure and the
\* key is added after the delay.
AddRateLimited(q, key) ==
    IF q.shuttingDown THEN [q EXCEPT !.failures[key] = @ + 1]
    ELSE [q EXCEPT !.failures[key] = @ + 1, !.waitingForAdd = @ \cup {key}]

\* workqueue.ShutDown: marks the queue and returns at once; keys already
\* queued are still handed out, new ones are ignored.
ShutDown(q) == [q EXCEPT !.shuttingDown = TRUE]

\* processNextItem giving up one failure earlier.
RetryPolicyOneLess(q, key, err) ==
    IF ~err THEN Forget(q, key)
    ELSE IF NumRequeues(q, key) < maxRetries - 1 THEN AddRateLimited(q, key)
    ELSE Forget(q, key)

\* processNextItem with a dead letter: after a drop the queue takes no
\* key any more.
RetryPolicyDeadLetters(q, key, err) ==
    IF ~err THEN Forget(q, key)
    ELSE IF NumRequeues(q, key) < maxRetries THEN AddRateLimited(q, key)
    ELSE ShutDown(Forget(q, key))

\* processNextItem forgetting a key whose reconcile failed.
RetryPolicyForgets(q, key, err) == Forget(q, key)

\* The queue handling of processNextItem after reconcile returned.
RetryPolicy(q, key, err) ==
    IF ~err THEN Forget(q, key)
    ELSE IF NumRequeues(q, key) < maxRetries THEN AddRateLimited(q, key)
    ELSE Forget(q, key)

\* ------------------------------------------------------------------ state
VARIABLES
    store,      \* controller: informer store, key -> object or Absent
    workqueue,  \* controller: the rate-limited work queue
    pc,         \* worker position: "idle", "reconcile", "done"; before the
                \* worker exists, the position of Run: "syncing", "cancelled",
                \* "synced", "failed"
    cur,        \* key handed to the worker by Get ("" when idle)
    cgroups,    \* host: existing slice directories -> their limits
    hist,       \* per key: what the reconciles and events of the key did
    everDup,    \* two declarations of the store targeted one namespace
    nEvents,    \* notifications delivered by the informer
    nFaults,    \* reconciles in which a host-side step failed
    api,        \* plugin: the declarations at the API server
    quotas,     \* plugin: QuotaCache.quotas, the namespaces with a quota
    phase,      \* plugin: "new", "listed" (initialSync done), "unlisted"
                \* (initialSync failed, cache left empty), "watching"
    observed,   \* plugin: per key, the object last shown to the plugin
    dupSeen,    \* plugin: two observed declarations targeted one namespace
    nApi,       \* plugin: changes made at the API server
    flagPrefix, \* the --slice-prefix the controller of the node runs with
    routed,     \* plugin: the last CreateContainer call and what it returned
    cpuIn,      \* parsing: the cpu text under evaluation
    cpuOut,     \* parsing: what ParseCPU and the CPUQuota step made of it
    memIn,      \* parsing: the memory text under evaluation
    memOut,     \* parsing: what ParseMemory and the MemoryMax step made of it
    objIn,      \* parsing: the declaration object under interpretation
    objOut      \* parsing: what the plugin and the controller made of it

ctlVars ==
    <<store, workqueue, pc, cur, cgroups, hist, everDup, nEvents, nFaults>>
routeVars == <<flagPrefix, routed>>
pluginVars == <<api, quotas, phase, observed, dupSeen, nApi, routeVars>>
cpuVars == <<cpuIn, cpuOut, memIn, memOut, objIn, objOut>>
vars == <<ctlVars, pluginVars, cpuVars>>

Min(a, b) == IF a < b THEN a ELSE b

\* History of a key that was never reconciled.
\*   fresh    the last reconcile read the object now in the store
\*   err      the last reconcile returned an error
\*   tomb     namespace of the object last deleted under the key
\*   failRun  failing reconciles in a row since the last success or drop
\*   rlRun    rate-limited re-queues in that run
\*   dropped  the last reconcile failed and the key was forgotten
\*   evRun    the key was added again since the first reconcile of the run
\*   evPend   notifications since the key was last handed to the worker
\*   status   the status the last reconcile asked to write
\*   events   the events the last reconcile emitted
\*   earlier  the events the reconcile before it emitted
\*   cmds     the set-property invocations the last reconcile made
\*   stored   the status the last reconcile asked to write was stored
\*   recorded the events the last reconcile emitted were recorded
\*   flip     how far the object went through enabled (1), then disabled
\*            (2), then enabled again (3) since it was created
\*   relimit  the object's cpu limit went from one value that parses to
\*            another since it was created
\*   lost     the key was dropped for its retries at some reconcile of the
\*            object now stored
\*   moved    the namespace the object targeted before its spec.namespace
\*            was last changed in place, "" if it never was
NoHistory ==
    [fresh |-> FALSE, err |-> FALSE, tomb |-> "",
     failRun |-> 0, rlRun |-> 0, dropped |-> FALSE, evRun |-> FALSE,
     evPend |-> 0, status |-> NoStatus, events |-> <<>>, earlier |-> <<>>,
     cmds |-> <<>>, stored |-> FALSE, recorded |-> FALSE, flip |-> 0,
     relimit |-> FALSE, moved |-> "", lost |-> FALSE, echo |-> "none"]

\* Two declarations of st target the same namespace.
Duplicated(st) ==
    \E k1, k2 \in Names :
        /\ k1 # k2
        /\ st[k1].exists /\ st[k2].exists
        /\ st[k1].namespace = st[k2].namespace

InitController ==
    /\ store = [k \in Names |-> Absent]
    /\ workqueue = NewQueue
    /\ pc = "idle"
    /\ cur = ""
    /\ cgroups = << >>
    /\ hist = [k \in Names |-> NoHistory]
    /\ everDup = FALSE
    /\ nEvents = 0
    /\ nFaults = 0

\* The object went from one cpu limit that parses to another.
CpuChanged(old, new) ==
    /\ old.exists /\ new.exists
    /\ ParseCPU(old.cpu).ok /\ ParseCPU(new.cpu).ok
    /\ old.cpu # new.cpu

\* What onAdd, onUpdate and onDelete do alike: enqueue the key.
\* The flip count of an object after it became obj.
Flipped(flip, obj) ==
    IF ~obj.exists THEN 0
    ELSE IF obj.enabled THEN (IF flip = 0 THEN 1 ELSE IF flip = 2 THEN 3 ELSE flip)
    ELSE (IF flip = 1 THEN 2 ELSE flip)

Notify(key) ==
    /\ pc # "exited"
    /\ workqueue' = WqAdd(workqueue, key)
    /\ hist' = [hist EXCEPT
                  ![key].fresh = @ /\ store'[key] = store[key],
                  ![key].evPend = Min(@ + 1, 2),
                  ![key].evRun = @ \/ hist[key].failRun >= 1,
                  ![key].flip = Flipped(@, store'[key]),
                  ![key].relimit = /\ store'[key].exists
                                   /\ @ \/ CpuChanged(store[key], store'[key]),
                  ![key].moved = IF /\ store[key].exists /\ store'[key].exists
                                    /\ store'[key].namespace # store[key].namespace
                                 THEN store[key].namespace ELSE @,
                  ![key].lost = @ /\ store'[key] = store[key],
                  ![key].tomb = IF store'[key].exists THEN @
                                ELSE store[key].namespace]

\* The informer stores a new object and calls onAdd.
onAdd(key, obj) ==
    /\ nEvents < MaxEvents
    /\ ~store[key].exists
    /\ store' = [store EXCEPT ![key] = obj]
    /\ everDup' = (everDup \/ Duplicated(store'))
    /\ nEvents' = nEvents + 1
    /\ Notify(key)
    /\ UNCHANGED <<pc, cur, cgroups, nFaults, pluginVars, cpuVars>>

\* The informer stores a changed object and calls onUpdate.  The namespace
\* of a declaration is never changed in place.
onUpdate(key, obj) ==
    /\ nEvents < MaxEvents
    /\ store[key].exists
    /\ obj # store[key]
    /\ obj.namespace = store[key].namespace
    /\ store' = [store EXCEPT ![key] = obj]
    /\ everDup' = (everDup \/ Duplicated(store'))
    /\ nEvents' = nEvents + 1
    /\ Notify(key)
    /\ UNCHANGED <<pc, cur, cgroups, nFaults, pluginVars, cpuVars>>

\* The informer stores an object whose spec.namespace was changed and
\* calls onUpdate: the handler takes any new object.
onUpdateNamespace(key, obj) ==
    /\ nEvents < MaxEvents
    /\ store[key].exists
    /\ obj.namespace # store[key].namespace
    /\ store' = [store EXCEPT ![key] = obj]
    /\ everDup' = (everDup \/ Duplicated(store'))
    /\ nEvents' = nEvents + 1
    /\ Notify(key)
    /\ UNCHANGED <<pc, cur, cgroups, nFaults, pluginVars, cpuVars>>

\* The informer drops a deleted object and calls onDelete.
onDelete(key) ==
    /\ nEvents < MaxEvents
    /\ store[key].exists
    /\ store' = [store EXCEPT ![key] = Absent]
    /\ nEvents' = nEvents + 1
    /\ Notify(key)
    /\ UNCHANGED <<pc, cur, cgroups, everDup, nFaults, pluginVars, cpuVars>>

\* The periodic resync calls onUpdate for an unchanged object.
Resync(key) ==
    /\ nEvents < MaxEvents
    /\ store[key].exists
    /\ nEvents' = nEvents + 1
    /\ store' = store
    /\ Notify(key)
    /\ UNCHANGED <<pc, cur, cgroups, everDup, nFaults, pluginVars, cpuVars>>

\* The resync timer of the informer (resyncPeriod) fires: onUpdate is
\* called for a stored object, as often as time goes on.
ResyncTick(key) ==
    /\ store[key].exists
    /\ store' = store
    /\ Notify(key)
    /\ UNCHANGED <<pc, cur, cgroups, everDup, nEvents, nFaults, pluginVars, cpuVars>>

\* The delay of a rate-limited add has passed: the key is added.
DelayedAdd(key) ==
    /\ key \in workqueue.waitingForAdd
    /\ workqueue' = WqAdd([workqueue EXCEPT !.waitingForAdd = @ \ {key}], key)
    /\ UNCHANGED <<store, pc, cur, cgroups, hist, everDup, nEvents, nFaults, pluginVars, cpuVars>>

\* A worker that would not wait for the running reconcile to finish, as a
\* second worker goroutine would.
GetWhileBusy ==
    /\ workqueue.queue # <<>>
    /\ cur' = Head(workqueue.queue)
    /\ workqueue' = WqGet(workqueue)
    /\ pc' = "reconcile"
    /\ hist' = [hist EXCEPT ![Head(workqueue.queue)].evPend = 0]
    /\ UNCHANGED <<store, cgroups, everDup, nEvents, nFaults, pluginVars, cpuVars>>

\* processNextItem, first part: Get hands the head of the queue to the worker.
Get ==
    /\ pc = "idle"
    /\ workqueue.queue # <<>>
    /\ cur' = Head(workqueue.queue)
    /\ workqueue' = WqGet(workqueue)
    /\ pc' = "reconcile"
    /\ hist' = [hist EXCEPT ![Head(workqueue.queue)].evPend = 0]
    /\ UNCHANGED <<store, cgroups, everDup, nEvents, nFaults, pluginVars, cpuVars>>

\* The history of a key after a reconcile of it with result r, the
\* failure count of the key going from before to after; added tells that
\* the key was added again while this reconcile ran.
Reconciled(h, r, before, after, added, host) ==
    [h EXCEPT
       !.stored = updateStatus(r.status, host),
       !.recorded = EmitEventForObject(r.events, host),
       !.fresh = TRUE,
       !.err = r.err,
       !.status = r.status,
       !.events = r.events,
       !.earlier = h.events,
       !.cmds = r.cmds,
       !.failRun = IF ~r.err THEN 0
                   ELSE IF h.dropped \/ h.failRun = 0 THEN 1
                   ELSE Min(h.failRun + 1, maxRetries + 2),
       !.rlRun = IF ~r.err THEN 0
                 ELSE Min((IF h.dropped \/ h.failRun = 0 THEN 0 ELSE h.rlRun)
                            + (IF after > before THEN 1 ELSE 0),
                          maxRetries + 2),
       !.dropped = r.err /\ after = 0,
       !.lost = h.lost \/ (r.err /\ after = 0),
       !.evRun = IF ~r.err THEN FALSE
                 ELSE IF h.dropped \/ h.failRun = 0 THEN added
                 ELSE h.evRun]

\* processNextItem, second part: reconcile the key, then forget it,
\* re-queue it with rate limiting, or drop it.
Process ==
    /\ pc = "reconcile"
    /\ \E host \in HostOutcomes :
       \E r \in {reconcile(store, cgroups, cur, host)} :
       \E fault \in {host # NoFault /\
                        (r # reconcile(store, cgroups, cur, NoFault) \/
                         Unreported(r, host))} :
       \E q \in {RetryPolicy(workqueue, cur, r.err)} :
         /\ fault => nFaults < MaxFaults
         /\ nFaults' = nFaults + (IF fault THEN 1 ELSE 0)
         /\ cgroups' = r.cg
         /\ workqueue' = q
         /\ hist' = [hist EXCEPT ![cur] =
                       Reconciled(@, r, workqueue.failures[cur],
                                  q.failures[cur], cur \in workqueue.dirty,
                                  host)]
    /\ pc' = "done"
    /\ UNCHANGED <<store, cur, everDup, nEvents, pluginVars, cpuVars>>

\* The same with an outage of the host long enough for a key to use up
\* its retries.
ProcessOutage ==
    /\ pc = "reconcile"
    /\ \E host \in HostOutcomes :
       \E r \in {reconcile(store, cgroups, cur, host)} :
       \E fault \in {host # NoFault /\
                        (r # reconcile(store, cgroups, cur, NoFault) \/
                         Unreported(r, host))} :
       \E q \in {RetryPolicy(workqueue, cur, r.err)} :
         /\ fault => nFaults < maxRetries + 1
         /\ nFaults' = nFaults + (IF fault THEN 1 ELSE 0)
         /\ cgroups' = r.cg
         /\ workqueue' = q
         /\ hist' = [hist EXCEPT ![cur] =
                       Reconciled(@, r, workqueue.failures[cur],
                                  q.failures[cur], cur \in workqueue.dirty,
                                  host)]
    /\ pc' = "done"
    /\ UNCHANGED <<store, cur, everDup, nEvents, pluginVars, cpuVars>>

\* UpdateStatus as the API server sees it: the object it stores carries
\* ready, message and lastUpdated = time.Now() to the second.  A write
\* that changes ready or message changes the object ("changed"); a write
\* that repeats them changes it when the second has changed ("stamped").
\* before is the status written by the reconcile before.
Stamped(echo, before, status) ==
    IF before.written /\ before = status
    THEN (IF echo = "changed" THEN "changed" ELSE "stamped")
    ELSE "changed"

\* processNextItem, second part, on a host that answers every call, with
\* the trace its status write leaves at the API server.
ProcessStatusWrite ==
    /\ pc = "reconcile"
    /\ \E r \in {reconcile(store, cgroups, cur, NoFault)} :
       \E q \in {RetryPolicy(workqueue, cur, r.err)} :
         /\ cgroups' = r.cg
         /\ workqueue' = q
         /\ hist' = [hist EXCEPT ![cur] =
                       [Reconciled(@, r, workqueue.failures[cur],
                                   q.failures[cur], cur \in workqueue.dirty,
                                   NoFault)
                          EXCEPT !.echo =
                            IF updateStatus(r.status, NoFault)
                            THEN Stamped(hist[cur].echo, hist[cur].status, r.status)
                            ELSE hist[cur].echo]]
    /\ pc' = "done"
    /\ UNCHANGED <<store, cur, everDup, nEvents, nFaults, pluginVars, cpuVars>>

\* The API server stored a changed object on UpdateStatus: the watch
\* delivers it and the informer calls onUpdate, which adds the key.
StatusEcho(key) ==
    /\ hist[key].echo # "none"
    /\ store[key].exists
    /\ pc # "exited"
    /\ workqueue' = WqAdd(workqueue, key)
    /\ hist' = [hist EXCEPT ![key].echo = "none",
                            ![key].evPend = Min(@ + 1, 2),
                            ![key].evRun = @ \/ hist[key].failRun >= 1]
    /\ UNCHANGED <<store, pc, cur, cgroups, everDup, nEvents, nFaults,
                   pluginVars, cpuVars>>

\* UpdateStatus repeated ready and message within the second of the
\* write before: the object is stored unchanged and no event follows.
StatusUnchanged(key) ==
    /\ hist[key].echo = "stamped"
    /\ hist' = [hist EXCEPT ![key].echo = "none"]
    /\ UNCHANGED <<store, workqueue, pc, cur, cgroups, everDup, nEvents,
                   nFaults, pluginVars, cpuVars>>

\* processNextItem, deferred: Done releases the key.
Done ==
    /\ pc = "done"
    /\ workqueue' = WqDone(workqueue, cur)
    /\ pc' = "idle"
    /\ cur' = ""
    /\ UNCHANGED <<store, cgroups, hist, everDup, nEvents, nFaults, pluginVars, cpuVars>>

\* The positions of Run before it has started the worker: waiting for the
\* informer cache ("syncing"), the same with the context cancelled
\* ("cancelled"), HasSynced true and WaitForCacheSync about to return
\* ("synced"), returned with "failed to sync informer cache" ("failed").
BeforeWorker == {"syncing", "cancelled", "synced", "failed"}

\* The root context is cancelled: Run leaves its wait on ctx.Done and
\* returns; its deferred ShutDown marks the queue.  Run waits for nothing
\* else.
RunReturns ==
    /\ pc \notin BeforeWorker \cup {"exited"}
    /\ ~workqueue.shuttingDown
    /\ workqueue' = ShutDown(workqueue)
    /\ UNCHANGED <<store, pc, cur, cgroups, hist, everDup, nEvents, nFaults,
                   pluginVars, cpuVars>>

\* processNextItem on a queue that is shut down and empty: Get reports
\* shutdown and the worker loop ends.
WorkerReturns ==
    /\ pc = "idle"
    /\ workqueue.shuttingDown
    /\ workqueue.queue = <<>>
    /\ pc' = "stopped"
    /\ UNCHANGED <<store, workqueue, cur, cgroups, hist, everDup, nEvents,
                   nFaults, pluginVars, cpuVars>>

\* main returns after Run returned and the process ends, wherever the
\* worker goroutine is.
ProcessExits ==
    /\ workqueue.shuttingDown
    /\ pc # "exited"
    /\ pc' = "exited"
    /\ UNCHANGED <<store, workqueue, cur, cgroups, hist, everDup, nEvents,
                   nFaults, pluginVars, cpuVars>>

\* ------------------------------------------------------------ quota cache
\* The declarations the plugin model is shown.
PluginDeclarations ==
    { d \in Declarations :
        Limits(d) \in {BothLimits, [BothLimits EXCEPT !.cpu = <<"2">>]} }

\* extractNamespace and isEnabled of an object.
extractNamespace(obj) == obj.namespace
isEnabled(obj) == obj.enabled

\* initialSync over the listed items: every enabled item with a namespace
\* is entered.
initialSync(items) ==
    { extractNamespace(items[k]) : k \in
        { n \in Names : /\ items[n].exists
                        /\ extractNamespace(items[n]) # ""
                        /\ isEnabled(items[n]) } }

\* QuotaCache.onAdd
cacheOnAdd(qs, obj) ==
    IF extractNamespace(obj) = "" \/ ~isEnabled(obj) THEN qs
    ELSE qs \cup {extractNamespace(obj)}

\* QuotaCache.onUpdate
cacheOnUpdate(qs, newObj) ==
    IF extractNamespace(newObj) = "" THEN qs
    ELSE IF isEnabled(newObj) THEN qs \cup {extractNamespace(newObj)}
    ELSE qs \ {extractNamespace(newObj)}

\* QuotaCache.onDelete
cacheOnDelete(qs, obj) ==
    IF extractNamespace(obj) = "" THEN qs
    ELSE qs \ {extractNamespace(obj)}

\* QuotaCache.HasQuota
HasQuota(qs, namespace) == namespace \in qs

\* The informer's first list: onAdd for every listed object, one by one.
RECURSIVE AddAll(_, _, _)
AddAll(qs, items, keys) ==
    IF keys = {} THEN qs
    ELSE LET k == CHOOSE n \in keys : TRUE
         IN  AddAll(IF items[k].exists THEN cacheOnAdd(qs, items[k]) ELSE qs,
                    items, keys \ {k})

\* Plugin.CreateContainer: for a namespace with a quota, an adjustment
\* that sets the Linux cgroups path and nothing else; otherwise nothing.
\* The slice name is formatted from the literal "brasa-%s.slice".
NoAdjustment == [set |-> {}, cgroupsPath |-> <<>>]
CreateContainer(qs, ns, id) ==
    IF ~HasQuota(qs, ns)
    THEN [adjust |-> NoAdjustment, updates |-> <<>>, err |-> FALSE]
    ELSE [adjust |-> [set |-> {"linux.cgroups_path"},
                      cgroupsPath |-> << <<"brasa", "-", ns, ".slice">>,
                                         "cri-containerd", id >>],
          updates |-> <<>>, err |-> FALSE]

\* No CreateContainer call has been made yet.
NotRouted == [called |-> FALSE, ns |-> "", id |-> "", res |-> CreateContainer({}, "", "")]

\* Values of --slice-prefix a node may run its controller with, and the
\* container ids the runtime hands to the plugin.
SlicePrefixes == { slicePrefix, <<"tenants", ".slice">>, <<"brasa">> }
ContainerIds == {"c1", "c2"}

InitPlugin ==
    /\ api \in [Names -> {Absent} \cup PluginDeclarations]
    /\ quotas = {}
    /\ phase = "new"
    /\ observed = [k \in Names |-> Absent]
    /\ dupSeen = FALSE
    /\ nApi = 0
    /\ flagPrefix \in SlicePrefixes
    /\ routed = NotRouted

\* QuotaCache.Start, first part: initialSync lists the declarations
\* itself; when the list fails the cache starts empty.
StartInitialSync ==
    /\ phase = "new"
    /\ \E listOk \in BOOLEAN :
         /\ quotas' = IF listOk THEN initialSync(api) ELSE {}
         /\ observed' = IF listOk THEN api ELSE observed
         /\ dupSeen' = (listOk /\ Duplicated(api))
         /\ phase' = IF listOk THEN "listed" ELSE "unlisted"
    /\ UNCHANGED <<api, nApi, ctlVars, cpuVars, routeVars>>

\* A declaration changes at the API server between initialSync and the
\* informer's own first list: the plugin is not told.
ApiChangeUnseen(key, obj) ==
    /\ phase \in {"listed", "unlisted"}
    /\ nApi < MaxEvents
    /\ obj # api[key]
    /\ (api[key].exists /\ obj.exists) => obj.namespace = api[key].namespace
    /\ api' = [api EXCEPT ![key] = obj]
    /\ nApi' = nApi + 1
    /\ UNCHANGED <<quotas, phase, observed, dupSeen, ctlVars, cpuVars, routeVars>>

\* QuotaCache.Start, second part: the informer runs, lists and calls onAdd
\* for every object it found.
StartInformer ==
    /\ phase \in {"listed", "unlisted"}
    /\ quotas' = AddAll(quotas, api, Names)
    /\ observed' = [k \in Names |-> IF api[k].exists THEN api[k] ELSE observed[k]]
    /\ dupSeen' = (dupSeen \/ Duplicated(observed'))
    /\ phase' = "watching"
    /\ UNCHANGED <<api, nApi, ctlVars, cpuVars, routeVars>>

\* While watching, every change at the API server reaches the handlers.
WatchAdd(key, obj) ==
    /\ phase = "watching"
    /\ nApi < MaxEvents
    /\ ~api[key].exists
    /\ api' = [api EXCEPT ![key] = obj]
    /\ quotas' = cacheOnAdd(quotas, obj)
    /\ observed' = [observed EXCEPT ![key] = obj]
    /\ dupSeen' = (dupSeen \/ Duplicated(observed'))
    /\ nApi' = nApi + 1
    /\ UNCHANGED <<phase, ctlVars, cpuVars, routeVars>>

WatchUpdate(key, obj) ==
    /\ phase = "watching"
    /\ nApi < MaxEvents
    /\ api[key].exists
    /\ obj # api[key]
    /\ obj.namespace = api[key].namespace
    /\ api' = [api EXCEPT ![key] = obj]
    /\ quotas' = cacheOnUpdate(quotas, obj)
    /\ observed' = [observed EXCEPT ![key] = obj]
    /\ dupSeen' = (dupSeen \/ Duplicated(observed'))
    /\ nApi' = nApi + 1
    /\ UNCHANGED <<phase, ctlVars, cpuVars, routeVars>>

WatchDelete(key) ==
    /\ phase = "watching"
    /\ nApi < MaxEvents
    /\ api[key].exists
    /\ api' = [api EXCEPT ![key] = Absent]
    /\ quotas' = cacheOnDelete(quotas, api[key])
    /\ observed' = [observed EXCEPT ![key] = Absent]
    /\ dupSeen' = dupSeen
    /\ nApi' = nApi + 1
    /\ UNCHANGED <<phase, ctlVars, cpuVars, routeVars>>

\* A runtime loop that is started together with the cache.
PluginCreateContainerEarly(ns, id) ==
    /\ routed' = [called |-> TRUE, ns |-> ns, id |-> id,
                  res |-> CreateContainer(quotas, ns, id)]
    /\ UNCHANGED <<api, quotas, phase, observed, dupSeen, nApi, flagPrefix,
                   ctlVars, cpuVars>>

\* The runtime calls CreateContainer for a container of a pod.
PluginCreateContainer(ns, id) ==
    /\ phase # "new"
    /\ routed' = [called |-> TRUE, ns |-> ns, id |-> id,
                  res |-> CreateContainer(quotas, ns, id)]
    /\ UNCHANGED <<api, quotas, phase, observed, dupSeen, nApi, flagPrefix,
                   ctlVars, cpuVars>>

\* ------------------------------------------------------ controller start
\* The informer's first list, one object: it is put into the store, then
\* onAdd adds its key.  The informer goes on until it sees the context
\* cancelled.
InformerLists(key) ==
    /\ pc \in {"syncing", "cancelled"}
    /\ api[key].exists
    /\ ~store[key].exists
    /\ store' = [store EXCEPT ![key] = api[key]]
    /\ everDup' = (everDup \/ Duplicated(store'))
    /\ Notify(key)
    /\ UNCHANGED <<pc, cur, cgroups, nEvents, nFaults, pluginVars, cpuVars>>

\* The watch delivers the deletion of an object the store holds: the
\* informer drops it and calls onDelete.
WatchedDelete(key) ==
    /\ pc \notin {"failed", "exited"}
    /\ store[key].exists
    /\ api' = [api EXCEPT ![key] = Absent]
    /\ store' = [store EXCEPT ![key] = Absent]
    /\ Notify(key)
    /\ UNCHANGED <<pc, cur, cgroups, everDup, nEvents, nFaults, quotas, phase,
                   observed, dupSeen, nApi, routeVars, cpuVars>>

\* informer.HasSynced turns true: every object of the first list is in
\* the store.
HasSynced ==
    /\ pc = "syncing"
    /\ \A k \in Names : api[k].exists => store[k].exists
    /\ pc' = "synced"
    /\ UNCHANGED <<store, workqueue, cur, cgroups, hist, everDup, nEvents,
                   nFaults, pluginVars, cpuVars>>

\* A Run that starts its worker without waiting for the cache.
RunStartsWorkerAtOnce ==
    /\ pc \in {"syncing", "synced"}
    /\ pc' = "idle"
    /\ UNCHANGED <<store, workqueue, cur, cgroups, hist, everDup, nEvents,
                   nFaults, pluginVars, cpuVars>>

\* Run: WaitForCacheSync returned true; go c.runWorker(ctx).
RunStartsWorker ==
    /\ pc = "synced"
    /\ pc' = "idle"
    /\ UNCHANGED <<store, workqueue, cur, cgroups, hist, everDup, nEvents,
                   nFaults, pluginVars, cpuVars>>

\* The root context is cancelled while Run waits for the cache.
CancelWhileSyncing ==
    /\ pc = "syncing"
    /\ pc' = "cancelled"
    /\ UNCHANGED <<store, workqueue, cur, cgroups, hist, everDup, nEvents,
                   nFaults, pluginVars, cpuVars>>

\* Run: WaitForCacheSync returned false; Run returns "failed to sync
\* informer cache" and its deferred ShutDown marks the queue.
RunFailsToSync ==
    /\ pc = "cancelled"
    /\ pc' = "failed"
    /\ workqueue' = ShutDown(workqueue)
    /\ UNCHANGED <<store, cur, cgroups, hist, everDup, nEvents, nFaults,
                   pluginVars, cpuVars>>

InitPluginIdle ==
    /\ api = [k \in Names |-> Absent]
    /\ quotas = {}
    /\ phase = "new"
    /\ observed = [k \in Names |-> Absent]
    /\ dupSeen = FALSE
    /\ nApi = 0
    /\ flagPrefix = slicePrefix
    /\ routed = NotRouted

\* ------------------------------------------------------------ cpu parsing
CpuAlphabet == {"0", "1", "5", ".", "-"}
CpuExamples ==
    { <<"4">>, <<"2">>, <<"0", ".", "5">>, <<"0", ".", "1", "2", "5">>,
      <<"0", ".", "0", "0", "5">> }

\* The texts tried: every text over CpuAlphabet up to MaxCpuLen characters
\* and the examples, as long as the value stays below MaxCores cores.
CpuInputs ==
    { s \in UNION { [1..n -> CpuAlphabet] : n \in 0..MaxCpuLen } \cup CpuExamples :
        ParseFloat(s).ok => ParseFloat(s).mant \div Pow10(ParseFloat(s).scale) < MaxCores }

NotEvaluated == [done |-> FALSE, ok |-> FALSE, quota |-> 0, pct |-> 0, enforced |-> 0]

\* What EnsureSlice makes of a cpu text: ParseCPU, then the percentage
\* handed to the service manager and the quota that percentage stands for.
Evaluated(cpu) ==
    [done |-> TRUE, ok |-> cpu.ok, quota |-> cpu.quota,
     pct |-> IF cpu.ok THEN CpuPercent(cpu.quota) ELSE 0,
     enforced |-> IF cpu.ok THEN EnforcedQuota(CpuPercent(cpu.quota)) ELSE 0]

\* The memory texts tried: a number, with or without a sign, space
\* around it and before the suffix, and a suffix in every spelling.
MemNumbers ==
    { <<"0">>, <<"8">>, <<"1", "5", "3", "6">>, <<"1", "0", "0", "0">>,
      <<"1", ".", "5">>, <<"0", ".", "5">> }
MemLetters == {"K", "M", "G", "T", "k", "m", "g", "t"}
MemSuffixTexts ==
    { <<>>, <<"B">>, <<"P">> }
      \cup { <<l>> : l \in MemLetters }
      \cup { <<l, i>> : l \in MemLetters, i \in {"i", "I"} }
MemInputs ==
    { lead \o sign \o num \o gap \o suffix :
        lead \in {<<>>, <<" ">>}, sign \in {<<>>, <<"-">>, <<"+">>},
        num \in MemNumbers, gap \in {<<>>, <<" ">>}, suffix \in MemSuffixTexts }

NotParsed ==
    [done |-> FALSE, ok |-> FALSE, bytes |-> <<0, 0, 0, 0, 0>>, text |-> <<>>,
     back |-> [ok |-> FALSE, bytes |-> <<0, 0, 0, 0, 0>>]]

\* What EnsureSlice makes of a memory text: ParseMemory, then the value
\* formatMemoryForSystemd writes into MemoryMax=, and that value parsed
\* again.
Parsed(memory) ==
    [done |-> TRUE, ok |-> memory.ok, bytes |-> memory.bytes,
     text |-> IF memory.ok THEN MemoryText(formatMemoryForSystemd(memory.bytes))
              ELSE <<>>,
     back |-> IF memory.ok
              THEN ParseMemory(MemoryText(formatMemoryForSystemd(memory.bytes)))
              ELSE [ok |-> FALSE, bytes |-> <<0, 0, 0, 0, 0>>]]

InitCpu ==
    /\ cpuIn \in CpuInputs
    /\ cpuOut = NotEvaluated
    /\ memIn = <<>>
    /\ memOut = NotParsed
    /\ objIn = NoObject
    /\ objOut = NotInterpreted

InitMemory ==
    /\ cpuIn = <<>>
    /\ cpuOut = NotEvaluated
    /\ memIn \in MemInputs
    /\ memOut = NotParsed
    /\ objIn = NoObject
    /\ objOut = NotInterpreted

InitCpuIdle ==
    /\ cpuIn = <<>>
    /\ cpuOut = NotEvaluated
    /\ memIn = <<>>
    /\ memOut = NotParsed
    /\ objIn = NoObject
    /\ objOut = NotInterpreted

EvaluateCpu ==
    /\ ~cpuOut.done
    /\ cpuOut' = Evaluated(ParseCPU(cpuIn))
    /\ UNCHANGED <<cpuIn, memIn, memOut, objIn, objOut, ctlVars, pluginVars>>

EvaluateMemory ==
    /\ ~memOut.done
    /\ memOut' = Parsed(ParseMemory(memIn))
    /\ UNCHANGED <<cpuIn, cpuOut, memIn, objIn, objOut, ctlVars, pluginVars>>

\* ------------------------------------------------------- interpretation
InitObject ==
    /\ cpuIn = <<>>
    /\ cpuOut = NotEvaluated
    /\ memIn = <<>>
    /\ memOut = NotParsed
    /\ objIn \in UnstructuredObjects
    /\ objOut = NotInterpreted

\* The plugin's handlers look at the object: extractNamespace, isEnabled.
PluginInterprets ==
    /\ ~objOut.plugin
    /\ objOut' = [objOut EXCEPT !.plugin = TRUE,
                                !.ns = extractNamespaceUnstructured(objIn),
                                !.enabled = isEnabledUnstructured(objIn)]
    /\ UNCHANGED <<cpuIn, cpuOut, memIn, memOut, objIn, ctlVars, pluginVars>>

\* The controller's reconcile parses the object: ParseNamespaceQuota.
ControllerParses ==
    /\ ~objOut.agent
    /\ objOut' = [objOut EXCEPT !.agent = TRUE,
                                !.parsed = ParseNamespaceQuotaUnstructured(objIn)]
    /\ UNCHANGED <<cpuIn, cpuOut, memIn, memOut, objIn, ctlVars, pluginVars>>

\* ------------------------------------------------------------ specifications
\* Slice lifecycle: declarations of any name and namespace, limits set or
\* not, enabled or not; a reconcile fails only through the host.
Init == InitController /\ InitPluginIdle /\ InitCpuIdle

Next ==
    \/ \E k \in Names : \E d \in SliceDeclarations(k) : onAdd(k, d)
    \/ \E k \in Names : \E d \in SliceDeclarations(k) : onUpdate(k, d)
    \/ \E k \in Names : onDelete(k)
    \/ \E k \in Names : Resync(k)
    \/ \E k \in Names : DelayedAdd(k)
    \/ Get
    \/ Process
    \/ Done

Spec == Init /\ [][Next]_vars

\* Retries: declarations whose reconcile fails for as long as they stay
\* (memory does not parse) next to ones that succeed.
NextRetry ==
    \/ \E k \in Names : \E d \in RetryDeclarations(k) : onAdd(k, d)
    \/ \E k \in Names : \E d \in RetryDeclarations(k) : onUpdate(k, d)
    \/ \E k \in Names : onDelete(k)
    \/ \E k \in Names : Resync(k)
    \/ \E k \in Names : DelayedAdd(k)
    \/ Get
    \/ Process
    \/ Done

SpecRetry == Init /\ [][NextRetry]_vars

\* reconcile returns: the worker does not stay in it.  Process is enabled
\* exactly while pc = "reconcile" and every Process step leaves that
\* position, so weak fairness of Process is weak fairness of this step,
\* stated on the worker's position alone.
ReconcileReturns ==
    /\ pc = "reconcile"
    /\ pc' = "done"
    /\ UNCHANGED <<store, workqueue, cur, cgroups, hist, everDup, nEvents,
                   nFaults, pluginVars, cpuVars>>

\* Recovery: enabled declarations with limits that parse; the timer of a
\* delayed add fires and the worker keeps running, so a step of theirs
\* that stays possible is taken.
NextRecover ==
    \/ \E k \in Names : \E d \in RecoverDeclarations(k) : onAdd(k, d)
    \/ \E k \in Names : \E d \in RecoverDeclarations(k) : onUpdate(k, d)
    \/ \E k \in Names : onDelete(k)
    \/ \E k \in Names : Resync(k)
    \/ \E k \in Names : DelayedAdd(k)
    \/ Get
    \/ Process
    \/ Done

SpecRecover ==
    /\ Init /\ [][NextRecover]_vars
    /\ \A k \in Names : WF_vars(DelayedAdd(k))
    /\ WF_vars(Get)
    /\ WF_vars(ReconcileReturns)
    /\ WF_vars(Done)

\* Limit changes: enabled declarations whose cpu limit goes between "4"
\* and "2".
NextLimits ==
    \/ \E k \in Names : \E d \in LimitDeclarations(k) : onAdd(k, d)
    \/ \E k \in Names : \E d \in LimitDeclarations(k) : onUpdate(k, d)
    \/ \E k \in Names : onDelete(k)
    \/ \E k \in Names : Resync(k)
    \/ \E k \in Names : DelayedAdd(k)
    \/ Get
    \/ Process
    \/ Done

SpecLimits == Init /\ [][NextLimits]_vars

\* Namespace changes: enabled declarations whose spec.namespace is
\* changed by an update.
NextMoved ==
    \/ \E k \in Names : \E d \in MovedDeclarations(k) : onAdd(k, d)
    \/ \E k \in Names : \E d \in MovedDeclarations(k) : onUpdateNamespace(k, d)
    \/ \E k \in Names : onDelete(k)
    \/ \E k \in Names : Resync(k)
    \/ \E k \in Names : DelayedAdd(k)
    \/ Get
    \/ Process
    \/ Done

SpecMoved == Init /\ [][NextMoved]_vars

\* Shutdown: the controller with its context cancelled at any moment.
NextShutdown ==
    \/ \E k \in Names : \E d \in RecoverDeclarations(k) : onAdd(k, d)
    \/ \E k \in Names : \E d \in RecoverDeclarations(k) : onUpdate(k, d)
    \/ \E k \in Names : onDelete(k)
    \/ \E k \in Names : Resync(k)
    \/ \E k \in Names : DelayedAdd(k)
    \/ Get
    \/ Process
    \/ Done
    \/ RunReturns
    \/ WorkerReturns
    \/ ProcessExits

SpecShutdown == Init /\ [][NextShutdown]_vars

\* Fail-open: limits that change, reconciles that fail until the key is
\* dropped, and the context cancelled at any moment.
NextFailOpen ==
    \/ \E k \in Names : \E d \in FailOpenDeclarations(k) : onAdd(k, d)
    \/ \E k \in Names : \E d \in FailOpenDeclarations(k) : onUpdate(k, d)
    \/ \E k \in Names : onDelete(k)
    \/ \E k \in Names : Resync(k)
    \/ \E k \in Names : DelayedAdd(k)
    \/ Get
    \/ Process
    \/ Done
    \/ RunReturns
    \/ WorkerReturns
    \/ ProcessExits

SpecFailOpen == Init /\ [][NextFailOpen]_vars

\* The resync of a stored object would put its key into the queue.
ResyncDue(k) == store[k].exists /\ WqAdd(workqueue, k) # workqueue

\* Convergence: declarations that parse on a host that fails for a
\* while; the timer of a delayed add fires and the worker keeps running,
\* and the resync timer keeps firing: a resync that stays due happens.
NextConverge ==
    \/ \E k \in Names : \E d \in ConvergeDeclarations(k) : onAdd(k, d)
    \/ \E k \in Names : onDelete(k)
    \/ \E k \in Names : ResyncTick(k)
    \/ \E k \in Names : DelayedAdd(k)
    \/ Get
    \/ ProcessOutage
    \/ Done

SpecConverge ==
    /\ Init /\ [][NextConverge]_vars
    /\ \A k \in Names : <>[]ResyncDue(k) => []<><<ResyncTick(k)>>_vars
    /\ \A k \in Names : WF_vars(DelayedAdd(k))
    /\ WF_vars(Get)
    /\ WF_vars(ReconcileReturns)
    /\ WF_vars(Done)

\* Status writes: enabled declarations that parse, changed a bounded
\* number of times, on a host that answers every call, without resync;
\* the worker keeps running and the watch delivers what the API server
\* stored.
NextStatusWrite ==
    \/ \E k \in Names : \E d \in RecoverDeclarations(k) : onAdd(k, d)
    \/ \E k \in Names : \E d \in RecoverDeclarations(k) : onUpdate(k, d)
    \/ Get
    \/ ProcessStatusWrite
    \/ Done
    \/ \E k \in Names : StatusEcho(k)
    \/ \E k \in Names : StatusUnchanged(k)

SpecStatusWrite ==
    /\ Init /\ [][NextStatusWrite]_vars
    /\ \A k \in Names : WF_vars(StatusEcho(k) \/ StatusUnchanged(k))
    /\ WF_vars(Get)
    /\ WF_vars(ReconcileReturns)
    /\ WF_vars(Done)

\* Run has started the informer and waits in WaitForCacheSync: the API
\* server holds any declarations, the store is empty, no worker exists.
InitStarting ==
    /\ store = [k \in Names |-> Absent]
    /\ workqueue = NewQueue
    /\ pc = "syncing"
    /\ cur = ""
    /\ cgroups = << >>
    /\ hist = [k \in Names |-> NoHistory]
    /\ everDup = FALSE
    /\ nEvents = 0
    /\ nFaults = 0
    /\ api \in { f \in [Names -> {Absent} \cup Declarations] :
                   \A k \in Names : f[k].exists => f[k] \in RecoverDeclarations(k) }
    /\ quotas = {}
    /\ phase = "new"
    /\ observed = [k \in Names |-> Absent]
    /\ dupSeen = FALSE
    /\ nApi = 0
    /\ flagPrefix = slicePrefix
    /\ routed = NotRouted
    /\ cpuIn = <<>>
    /\ cpuOut = NotEvaluated
    /\ memIn = <<>>
    /\ memOut = NotParsed
    /\ objIn = NoObject
    /\ objOut = NotInterpreted

\* Start of the controller: the informer lists what the API server
\* holds while Run waits for the cache, the context is cancelled at any
\* moment, objects are deleted at any moment.
NextStarting ==
    \/ \E k \in Names : InformerLists(k)
    \/ \E k \in Names : WatchedDelete(k)
    \/ HasSynced
    \/ RunStartsWorker
    \/ CancelWhileSyncing
    \/ RunFailsToSync
    \/ \E k \in Names : DelayedAdd(k)
    \/ Get
    \/ Process
    \/ Done
    \/ RunReturns
    \/ WorkerReturns
    \/ ProcessExits

SpecStarting == InitStarting /\ [][NextStarting]_vars

\* Interpretation: one declaration object, of any shape, is looked at by
\* the plugin and parsed by the controller, in either order.
InitInterpret == InitObject /\ InitController /\ InitPluginIdle

NextInterpret ==
    \/ PluginInterprets
    \/ ControllerParses

SpecInterpret == InitInterpret /\ [][NextInterpret]_vars

\* Parse failures: every declaration is enabled and carries a cpu or a
\* memory value that does not parse.
NextUnparsable ==
    \/ \E k \in Names : \E d \in UnparsableDeclarations(k) : onAdd(k, d)
    \/ \E k \in Names : \E d \in UnparsableDeclarations(k) : onUpdate(k, d)
    \/ \E k \in Names : onDelete(k)
    \/ \E k \in Names : Resync(k)
    \/ \E k \in Names : DelayedAdd(k)
    \/ Get
    \/ Process
    \/ Done

SpecUnparsable == Init /\ [][NextUnparsable]_vars

\* The plugin's quota cache from Start on.
InitCache == InitPlugin /\ InitController /\ InitCpuIdle

NextCache ==
    \/ StartInitialSync
    \/ \E k \in Names : \E d \in {Absent} \cup PluginDeclarations :
           ApiChangeUnseen(k, d)
    \/ StartInformer
    \/ \E k \in Names : \E d \in PluginDeclarations : WatchAdd(k, d)
    \/ \E k \in Names : \E d \in PluginDeclarations : WatchUpdate(k, d)
    \/ \E k \in Names : WatchDelete(k)
    \/ \E ns \in Names : \E id \in ContainerIds : PluginCreateContainer(ns, id)

SpecCache == InitCache /\ [][NextCache]_vars

\* Plugin.Run: Start goes on to run the informer, which lists until it
\* succeeds.
SpecCacheStart == SpecCache /\ WF_vars(StartInformer)

\* ParseCPU and the CPUQuota percentage over the cpu texts.
InitParse == InitCpu /\ InitController /\ InitPluginIdle

NextParse == EvaluateCpu

SpecParse == InitParse /\ [][NextParse]_vars

\* Memory parsing: one memory text is parsed and formatted.
InitMemParse == InitMemory /\ InitController /\ InitPluginIdle
NextMemParse == EvaluateMemory
SpecMemParse == InitMemParse /\ [][NextMemParse]_vars


\* ------------------------------------------------------------ properties
\* The object names whose stored declaration is enabled and targets namespace.
EnabledFor(st, namespace) ==
    { k \in Names : st[k].exists /\ st[k].enabled /\ st[k].namespace = namespace }

\* The last reconcile of key ran on the object now stored and no step of
\* the host failed in any reconcile.
Settled(key) == hist[key].fresh /\ nFaults = 0

\* C1: while no two declarations have ever targeted one namespace, an
\* enabled declaration whose latest state was reconciled successfully has
\* its slice directory.
C1_SliceExistsAfterReconcile ==
    ~everDup =>
        \A k \in Names :
            (store[k].exists /\ store[k].enabled /\ hist[k].fresh /\ ~hist[k].err)
                => SliceExists(cgroups, store[k].namespace)

\* C2: after the reconcile of a deleted or disabled declaration that
\* targeted namespace N, when no enabled declaration targets N, there is no
\* slice directory for N; stated for the runs in which every step of the
\* host succeeded, the most favourable ones.
C2_NoSliceWithoutDeclaration ==
    \A k \in Names :
        LET n == IF store[k].exists THEN store[k].namespace ELSE hist[k].tomb
        IN  (/\ Settled(k)
             /\ n # ""
             /\ ~(store[k].exists /\ store[k].enabled)
             /\ EnabledFor(store, n) = {})
                => ~SliceExists(cgroups, n)

\* C4: right after the reconcile of a deleted declaration named K that
\* targeted namespace N, with no fault of the host and no other
\* declaration left for N, the slice of N is gone, whatever K and N are.
C4_DeleteRemovesTargetSlice ==
    (/\ pc = "done"
     /\ ~store[cur].exists
     /\ Settled(cur)
     /\ hist[cur].tomb # ""
     /\ \A k \in Names : store[k].exists => store[k].namespace # hist[cur].tomb)
        => ~SliceExists(cgroups, hist[cur].tomb)

\* C5: after a successful reconcile of an enabled declaration whose cpu
\* (memory) is empty, the slice has no cpu (memory) limit, whatever limit
\* was applied before; stated for the runs in which every step of the host
\* succeeded and no two declarations targeted one namespace.
C5_EmptyLimitMeansMax ==
    (~everDup /\ nFaults = 0) =>
        \A k \in Names :
            (/\ store[k].exists /\ store[k].enabled
             /\ hist[k].fresh /\ ~hist[k].err
             /\ SliceExists(cgroups, store[k].namespace))
                => /\ store[k].cpu = <<>> =>
                        cgroups[GetSlicePath(store[k].namespace)].cpuMax = NoCpuLimit
                   /\ store[k].memory = <<>> =>
                        cgroups[GetSlicePath(store[k].namespace)].memMax = NoMemLimit

\* The times key stands in the queue, and the reconciles of key still to be
\* dispatched: one per queue entry and one for an add made in flight.
Count(q, key) == Cardinality({ i \in 1..Len(q.queue) : q.queue[i] = key })
Owed(q, key) ==
    Count(q, key) + (IF key \in q.dirty /\ key \in q.processing THEN 1 ELSE 0)

\* A step that adds a key to the work queue: an event or resync of the
\* informer, or the end of a rate-limited delay.
IsAdd ==
    \/ nEvents' # nEvents
    \/ /\ workqueue'.waitingForAdd # workqueue.waitingForAdd
       /\ workqueue'.waitingForAdd \subseteq workqueue.waitingForAdd

\* C7 as stated: the key is dropped on its 5th consecutive failure and no
\* more than 5 failing reconciles happen in a row.
C7_DroppedOnFifthFailure ==
    \A k \in Names :
        /\ hist[k].failRun = maxRetries => hist[k].dropped
        /\ hist[k].failRun <= maxRetries

\* C7 amended: a key is dropped on its 6th consecutive failure, the one
\* that finds NumRequeues = maxRetries = 5, and on no earlier one; until
\* then the failures counted for the key are its consecutive failures, and
\* the drop forgets them.
C7_DroppedOnSixthFailure ==
    \A k \in Names :
        /\ hist[k].failRun <= maxRetries + 1
        /\ hist[k].dropped <=> hist[k].failRun = maxRetries + 1
        /\ (hist[k].failRun >= 1 /\ ~hist[k].dropped)
              => NumRequeues(workqueue, k) = hist[k].failRun
        /\ (hist[k].dropped /\ hist[k].fresh /\ hist[k].err)
              => NumRequeues(workqueue, k) = 0

C7_Witness ==
    \E k \in Names :
        /\ hist[k].dropped /\ hist[k].failRun = maxRetries + 1
        /\ ~hist[k].evRun /\ pc = "done" /\ cur = k

\* C8: a key whose reconcile keeps failing is re-queued with rate limiting
\* after each of its first 5 failures and dropped on the next; once it is
\* dropped and as long as no event or resync came for it since its first
\* failure, it is neither queued, nor marked dirty, nor waiting for a
\* delayed add.
C8_RequeuedFiveTimesThenDropped ==
    \A k \in Names :
        /\ hist[k].dropped => hist[k].rlRun = maxRetries
        /\ (hist[k].failRun >= 1 /\ ~hist[k].dropped)
              => hist[k].rlRun = hist[k].failRun
        /\ (hist[k].failRun >= 1 /\ ~hist[k].dropped /\ ~hist[k].evRun)
              => \/ k \in workqueue.waitingForAdd
                 \/ Owed(workqueue, k) = 1
                 \/ k \in workqueue.processing
        /\ (hist[k].dropped /\ ~hist[k].evRun)
              => /\ k \notin workqueue.waitingForAdd
                 /\ k \notin workqueue.dirty
                 /\ Count(workqueue, k) = 0

C8_Witness ==
    \E k \in Names :
        /\ hist[k].dropped /\ hist[k].rlRun = maxRetries /\ ~hist[k].evRun
        /\ pc = "idle" /\ workqueue.processing = {}
        /\ store[k].exists /\ store[k].memory = Limits(BadMemory).memory

\* C9: when two or more events for a key arrive before the key is next
\* dispatched, exactly one dispatch of the key is owed; a dispatch leaves
\* none owed; and the reconcile works on the object the store holds when
\* it runs.
C9_OneReconcileForManyEvents ==
    [][\A k \in Names :
          /\ hist[k].evPend >= 2 => Owed(workqueue, k) = 1
          /\ (pc = "idle" /\ pc' = "reconcile" /\ cur' = k)
                => Owed(workqueue', k) = 0
          /\ (pc = "reconcile" /\ pc' = "done" /\ cur = k)
                => \E host \in HostOutcomes :
                      /\ cgroups' = reconcileObject(cgroups, k, store[k], host).cg
                      /\ hist'[k].err = reconcileObject(cgroups, k, store[k], host).err
      ]_vars

C9_Witness ==
    \E k \in Names :
        /\ hist[k].evPend >= 2 /\ Count(workqueue, k) = 1
        /\ k \notin workqueue.processing /\ pc = "idle"

\* C10 as stated: an add of a key that is queued or in flight changes
\* nothing in the reconciles owed to it.
C10_AddIsNoOp ==
    [][IsAdd =>
          \A k \in Names :
              (Count(workqueue, k) > 0 \/ k \in workqueue.processing)
                  => Owed(workqueue', k) = Owed(workqueue, k)
      ]_vars

\* C10 amended: an add of a key that is queued, or in flight and already
\* marked dirty, changes nothing; an add of a key that is in flight and
\* not marked dirty marks it, which owes it exactly one further reconcile
\* after the one in flight, and puts nothing in the queue before Done.
C10_AddWhileQueuedOrDirtyIsNoOp ==
    [][IsAdd =>
          \A k \in Names :
              /\ k \in workqueue.dirty
                    => /\ Owed(workqueue', k) = Owed(workqueue, k)
                       /\ Count(workqueue', k) = Count(workqueue, k)
              /\ (k \in workqueue.processing /\ k \notin workqueue.dirty)
                    => /\ Count(workqueue', k) = 0
                       /\ Owed(workqueue', k) =
                            (IF k \in workqueue'.dirty THEN 1 ELSE 0)
              /\ Owed(workqueue', k) <= 1
      ]_vars

C10_Witness ==
    \E k \in Names :
        /\ k \in workqueue.processing /\ k \in workqueue.dirty
        /\ pc = "done" /\ cur = k

\* The namespaces for which the plugin last observed an existing, enabled
\* declaration.
ObservedEnabled ==
    { observed[k].namespace : k \in
        { n \in Names : observed[n].exists /\ observed[n].enabled } }

\* C3: once the initial list is processed and after any add, update and
\* delete events, the cache holds exactly the namespaces whose latest
\* observed declaration exists and is enabled; stated for the runs in which
\* no two observed declarations targeted one namespace.
C3_CacheIsObservedEnabledSet ==
    (phase # "new" /\ ~dupSeen) => quotas = ObservedEnabled

\* C6: for every accepted cpu text, the quota that CPUQuota=pct% stands
\* for differs from the parsed quota by at most 1 microsecond.
C6_QuotaWithinOneMicrosecond ==
    (cpuOut.done /\ cpuOut.ok) => cpuOut.enforced - cpuOut.quota \in -1..1


\* C11: at most one reconcile executes at any time: the keys in flight are
\* none while the worker is idle and the one key of the worker otherwise;
\* the host's cgroups change only in the step of that one reconcile, so
\* the mutations are totally ordered; a watch event, also one that
\* arrives while a reconcile runs, changes nothing at the host or the
\* worker and only adds its key to the queue.
C11_OneReconcileAtATime ==
    [][ /\ Cardinality(workqueue.processing) <= 1
        /\ workqueue.processing = (IF pc = "idle" THEN {} ELSE {cur})
        /\ cgroups' # cgroups => pc = "reconcile" /\ pc' = "done"
        /\ nEvents' # nEvents =>
              /\ cgroups' = cgroups
              /\ pc' = pc /\ cur' = cur
              /\ \E k \in Names : workqueue' = WqAdd(workqueue, k) ]_vars

\* An event for the key under reconcile arrived while the reconcile ran,
\* and another key waits in the queue.
C11_Witness ==
    /\ pc = "reconcile"
    /\ hist[cur].evPend >= 1
    /\ cur \in workqueue.dirty
    /\ workqueue.queue # <<>>


\* C12: a CreateContainer call for a pod of namespace N and container id C
\* returns an adjustment exactly when N is in the quota cache at the time
\* of the call; the adjustment then sets the Linux cgroups path and
\* nothing else, to <P>-N.slice:cri-containerd:C for the parent slice
\* P.slice the node is configured with; in every case there is no error
\* and there are no container updates.
C12_AdjustmentIffCached ==
    [][ routed' # routed =>
          /\ (routed'.res.adjust # NoAdjustment) <=> HasQuota(quotas, routed'.ns)
          /\ HasQuota(quotas, routed'.ns) =>
                routed'.res.adjust =
                  [set |-> {"linux.cgroups_path"},
                   cgroupsPath |-> << SliceNameFor(flagPrefix, routed'.ns),
                                      "cri-containerd", routed'.id >>]
          /\ ~routed'.res.err
          /\ routed'.res.updates = <<>> ]_vars

\* C13: for every namespace N and every configured parent slice P.slice,
\* the slice component of the path the plugin returns for a container of
\* N is the unit name P-N.slice the controller creates and limits.
C13_RoutedToControllersSlice ==
    (routed.called /\ routed.res.adjust # NoAdjustment) =>
        routed.res.adjust.cgroupsPath[1] = SliceNameFor(flagPrefix, routed.ns)


\* The worker is about to reconcile, or has just reconciled, a declaration
\* that parses and has enabled=false.
DisabledUnderReconcile ==
    /\ pc # "idle"
    /\ store[cur].exists
    /\ ParseNamespaceQuota(store[cur]).ok
    /\ ~ParseNamespaceQuota(store[cur]).Enabled

\* C14: the reconcile of a declaration that parses with enabled=false
\* attempts to remove the namespace's slice (the slice is gone afterwards
\* or, when the removal failed, everything is as before), asks for status
\* ready=true "Quota disabled", emits one Normal QuotaDisabled event and
\* returns success, so the key is forgotten and not re-queued, also when
\* the removal fails; it creates no slice and runs no set-property command.
C14_DisabledRemovesAndSucceeds ==
    [][ (pc = "reconcile" /\ pc' = "done" /\ DisabledUnderReconcile) =>
          /\ \/ cgroups' = cgroups
             \/ cgroups' = Rmdir(cgroups, GetSlicePath(store[cur].namespace))
          /\ hist'[cur].status = Status(TRUE, <<"Quota disabled">>)
          /\ hist'[cur].events = <<Event("Normal", "QuotaDisabled")>>
          /\ ~hist'[cur].err
          /\ workqueue' = Forget(workqueue, cur)
          /\ DOMAIN cgroups' \subseteq DOMAIN cgroups
          /\ hist'[cur].cmds = <<>> ]_vars

\* A disabled declaration has just been reconciled, the removal of its
\* slice failed and the slice is still there.
C14_Witness ==
    /\ pc = "done"
    /\ DisabledUnderReconcile
    /\ hist[cur].fresh
    /\ nFaults = 1
    /\ SliceExists(cgroups, store[cur].namespace)
    /\ hist[cur].events = <<Event("Normal", "QuotaDisabled")>>


\* The worker is about to reconcile, or has just reconciled, an enabled
\* declaration with a cpu or a memory value that does not parse.
UnparsableUnderReconcile ==
    /\ pc # "idle"
    /\ store[cur].exists
    /\ ParseNamespaceQuota(store[cur]).ok
    /\ ParseNamespaceQuota(store[cur]).Enabled
    /\ \/ store[cur].cpu # <<>> /\ ~ParseCPU(store[cur].cpu).ok
       \/ store[cur].memory # <<>> /\ ~ParseMemory(store[cur].memory).ok

\* C15 as stated: the reconcile of an enabled declaration with a cpu or
\* memory value that does not parse asks for status ready=false with a
\* message that begins "Parse error: ", emits a Warning CgroupFailed
\* event and returns the error.
C15_ParseErrorMessage ==
    [][ (pc = "reconcile" /\ pc' = "done" /\ UnparsableUnderReconcile) =>
          /\ hist'[cur].status.written
          /\ ~hist'[cur].status.ready
          /\ hist'[cur].status.message[1] = "Parse error: "
          /\ hist'[cur].events = <<Event("Warning", "CgroupFailed")>>
          /\ hist'[cur].err ]_vars

\* C15 amended: the reconcile of an enabled declaration with a cpu or
\* memory value that does not parse asks for status ready=false with a
\* message that begins "Cgroup error: " and, when no host step failed
\* before the value was parsed, goes on "failed to parse CPU limit" or
\* "failed to parse memory limit"; it emits one Warning CgroupFailed event
\* and returns the error, and the key is handled as a failed key: added
\* again with rate limiting, or dropped after maxRetries re-queues.
C15_CgroupErrorMessage ==
    [][ (pc = "reconcile" /\ pc' = "done" /\ UnparsableUnderReconcile) =>
          /\ hist'[cur].status.written
          /\ ~hist'[cur].status.ready
          /\ hist'[cur].status.message[1] = "Cgroup error: "
          /\ nFaults' = nFaults =>
                hist'[cur].status.message[2] =
                  (IF ~ParseCPU(store[cur].cpu).ok
                   THEN "failed to parse CPU limit"
                   ELSE "failed to parse memory limit")
          /\ hist'[cur].events = <<Event("Warning", "CgroupFailed")>>
          /\ hist'[cur].err
          /\ workqueue' = (IF NumRequeues(workqueue, cur) < maxRetries
                           THEN AddRateLimited(workqueue, cur)
                           ELSE Forget(workqueue, cur)) ]_vars

\* A declaration with memory "invalid" has just been reconciled with no
\* host fault: the slice was made and the failure reported.
C15_Witness ==
    /\ pc = "done"
    /\ UnparsableUnderReconcile
    /\ Limits(store[cur]) = BadMemory
    /\ hist[cur].fresh
    /\ nFaults = 0
    /\ hist[cur].err
    /\ hist[cur].status = Status(FALSE, <<"Cgroup error: ", "failed to parse memory limit">>)
    /\ cur \in workqueue.waitingForAdd


\* The worker is about to reconcile, or has just reconciled, a declaration
\* that parses and has enabled=true.
EnabledUnderReconcile ==
    /\ pc # "idle"
    /\ store[cur].exists
    /\ ParseNamespaceQuota(store[cur]).ok
    /\ ParseNamespaceQuota(store[cur]).Enabled

\* The texts EnsureSlice's error begins with, one for each fatal step.
EnsureSliceErrors ==
    { "failed to ensure parent slice", "failed to create slice directory",
      "failed to parse CPU limit", "failed to set CPU limit",
      "failed to parse memory limit", "failed to set memory limit" }

\* C16: the reconcile of an enabled declaration reports what EnsureSlice
\* returned.  When a fatal step failed: status ready=false with a message
\* "Cgroup error: " and the error's text, one Warning CgroupFailed event,
\* no CgroupConfigured event, and the error is returned.  When all steps
\* succeeded: status ready=true "Cgroup configured successfully", one
\* Normal CgroupConfigured event, and success.  ready=true is never
\* written when EnsureSlice returned an error.
C16_ReportMatchesEnsureSlice ==
    [][ (pc = "reconcile" /\ pc' = "done" /\ EnabledUnderReconcile) =>
          \E host \in HostOutcomes :
          \E r \in {EnsureSlice(cgroups, store[cur].namespace, store[cur].cpu,
                                 store[cur].memory, host)} :
            /\ cgroups' = r.cg
            /\ hist'[cur].err = r.err
            /\ hist'[cur].status.written
            /\ hist'[cur].status.ready = ~r.err
            /\ r.err =>
                  /\ hist'[cur].status.message = <<"Cgroup error: ", r.text>>
                  /\ r.text \in EnsureSliceErrors
                  /\ hist'[cur].events = <<Event("Warning", "CgroupFailed")>>
            /\ ~r.err =>
                  /\ hist'[cur].status.message = <<"Cgroup configured successfully">>
                  /\ hist'[cur].events = <<Event("Normal", "CgroupConfigured")>> ]_vars

\* An enabled declaration has just been reconciled and a set-property
\* command of the host failed: the failure is reported.
C16_Witness ==
    /\ pc = "done"
    /\ EnabledUnderReconcile
    /\ hist[cur].fresh
    /\ hist[cur].err
    /\ hist[cur].status = Status(FALSE, <<"Cgroup error: ", "failed to set memory limit">>)
    /\ hist[cur].events = <<Event("Warning", "CgroupFailed")>>


\* The last reconcile of key k failed at a set-property invocation of the
\* service manager, the host has no failure left to give, and no event
\* will come any more.
FailedOnce(k) ==
    /\ store[k].exists
    /\ hist[k].fresh
    /\ hist[k].err
    /\ hist[k].status.ready = FALSE
    /\ hist[k].status.message[2] \in {"failed to set CPU limit",
                                       "failed to set memory limit"}
    /\ hist[k].events = <<Event("Warning", "CgroupFailed")>>
    /\ nFaults = MaxFaults
    /\ nEvents = MaxEvents

\* The last reconcile of key k reported success and the one before it
\* reported the failure.
Recovered(k) ==
    /\ hist[k].events = <<Event("Normal", "CgroupConfigured")>>
    /\ hist[k].earlier = <<Event("Warning", "CgroupFailed")>>
    /\ hist[k].status = Status(TRUE, <<"Cgroup configured successfully">>)

\* C17: when a set-property invocation failed once and succeeds from then
\* on, the key is reconciled again without any new event: the failed
\* reconcile recorded CgroupFailed and ready=false, a later reconcile of
\* the key records CgroupConfigured right after that CgroupFailed, and the
\* status ends up, and stays, ready=true.
C17_FailsOnceThenConfigured ==
    \A k \in Names :
      /\ FailedOnce(k) ~> Recovered(k)
      /\ FailedOnce(k) ~> [](hist[k].status.ready /\ ~hist[k].err)

\* The key has recovered from a failed set-property invocation.
C17_Witness ==
    \E k \in Names :
      /\ Recovered(k)
      /\ nFaults = MaxFaults
      /\ nEvents = MaxEvents
      /\ hist[k].fresh
      /\ SliceExists(cgroups, store[k].namespace)


\* The reconcile of object obj under key k right after a reconcile of the
\* same object, the host answering both alike, repeats the first: same
\* set-property commands, same result, same cgroups.
SecondRepeatsFirst(cg, k, obj, host) ==
    \A r1 \in {reconcileObject(cg, k, obj, host)} :
    \A r2 \in {reconcileObject(r1.cg, k, obj, host)} :
      /\ r2.cmds = r1.cmds
      /\ r2.err = r1.err
      /\ r2.cg = r1.cg
      /\ r2.status = r1.status

\* C18: from whatever state the host's slices are in, reconciling the
\* same unchanged enabled declaration twice in a row is idempotent: the
\* second reconcile issues the same sequence of service-manager commands
\* as the first, succeeds whenever the first did, and leaves directory,
\* CPU limit and memory limit of every slice as the first left them.
C18_SecondReconcileRepeatsFirst ==
    \A k \in Names :
      (store[k].exists /\ ParseNamespaceQuota(store[k]).ok /\ store[k].enabled) =>
        \A host \in HostOutcomes : SecondRepeatsFirst(cgroups, k, store[k], host)

\* An enabled declaration with limits has been reconciled with success
\* twice in a row and is unchanged since.
C18_Witness ==
    /\ pc = "done"
    /\ EnabledUnderReconcile
    /\ hist[cur].fresh
    /\ hist[cur].events = <<Event("Normal", "CgroupConfigured")>>
    /\ hist[cur].earlier = <<Event("Normal", "CgroupConfigured")>>
    /\ Len(hist[cur].cmds) = 2
    /\ SliceExists(cgroups, store[cur].namespace)


\* C19: RemoveSlice is idempotent.  For a namespace whose slice directory
\* does not exist it returns success and changes nothing, whatever rmdir
\* would answer; after a removal that succeeded the slice is absent, and
\* a second RemoveSlice for the namespace succeeds as well and leaves it
\* absent.
C19_RemoveSliceIdempotent ==
    \A ns \in Names : \A host \in HostOutcomes :
      /\ ~SliceExists(cgroups, ns) =>
            RemoveSlice(cgroups, ns, host) = [err |-> FALSE, cg |-> cgroups]
      /\ \A r1 \in {RemoveSlice(cgroups, ns, NoFault)} :
         \A r2 \in {RemoveSlice(r1.cg, ns, host)} :
           /\ ~r1.err
           /\ ~SliceExists(r1.cg, ns)
           /\ ~r2.err
           /\ r2.cg = r1.cg

\* The slice of a deleted declaration has been removed by two reconciles
\* in a row, the second finding no directory.
C19_Witness ==
    /\ pc = "done"
    /\ ~store[cur].exists
    /\ hist[cur].events = <<Event("Normal", "CgroupRemoved")>>
    /\ hist[cur].earlier = <<Event("Normal", "CgroupRemoved")>>
    /\ ~SliceExists(cgroups, cur)


\* The set-property commands a reconcile of declaration d makes when
\* every step succeeds.
DeclaredCommands(d) ==
    (IF d.cpu = <<>> THEN <<>>
     ELSE <<CpuCommand(d.namespace, ParseCPU(d.cpu).quota)>>)
    \o (IF d.memory = <<>> THEN <<>>
        ELSE <<MemoryCommand(d.namespace, ParseMemory(d.memory).bytes)>>)

\* C20: a declaration went enabled, disabled, enabled again, each change
\* reconciled or collapsed by the queue with a later one; when the
\* reconcile of the last change succeeds, the slice directory is present
\* and the declared CPU and memory limits are in force, applied by that
\* reconcile's own set-property commands.
C20_ReenabledSliceHasLimits ==
    [][ (/\ pc = "reconcile" /\ pc' = "done"
         /\ EnabledUnderReconcile
         /\ hist[cur].flip = 3
         /\ ~hist'[cur].err) =>
          /\ SliceExists(cgroups', store[cur].namespace)
          /\ store[cur].cpu # <<>> =>
                cgroups'[GetSlicePath(store[cur].namespace)].cpuMax =
                  ParseCPU(store[cur].cpu).quota
          /\ store[cur].memory # <<>> =>
                cgroups'[GetSlicePath(store[cur].namespace)].memMax =
                  ParseMemory(store[cur].memory).bytes
          /\ hist'[cur].cmds = DeclaredCommands(store[cur]) ]_vars

\* The declaration, enabled again with both limits, has just been
\* reconciled after the reconcile that disabled it; no host step failed.
C20_Witness ==
    /\ pc = "done"
    /\ EnabledUnderReconcile
    /\ hist[cur].flip = 3
    /\ hist[cur].fresh
    /\ ~hist[cur].err
    /\ nFaults = 0
    /\ Limits(store[cur]) = BothLimits
    /\ hist[cur].earlier = <<Event("Normal", "QuotaDisabled")>>
    /\ hist[cur].events = <<Event("Normal", "CgroupConfigured")>>
    /\ Len(hist[cur].cmds) = 2


\* C21: when the reconcile of an enabled declaration has succeeded on the
\* object now stored, the cpu limit in force is the one that object
\* declares (200000 microseconds for "2") and its CPUQuota command was
\* made from it, whatever was declared before, also when several updates
\* were collapsed into one reconcile or the reconcile was the retry of a
\* failure older than the change.
C21_LatestLimitApplied ==
    \A k \in Names :
      (/\ store[k].exists /\ store[k].enabled
       /\ hist[k].fresh /\ ~hist[k].err) =>
        /\ SliceExists(cgroups, store[k].namespace)
        /\ cgroups[GetSlicePath(store[k].namespace)].cpuMax =
              ParseCPU(store[k].cpu).quota
        /\ store[k].cpu = <<"2">> =>
              cgroups[GetSlicePath(store[k].namespace)].cpuMax = 200000
        /\ hist[k].cmds[1] = CpuCommand(store[k].namespace,
                                        ParseCPU(store[k].cpu).quota)

\* The cpu limit of the object was changed and is now "2"; the reconcile
\* before the last one failed, the last one succeeded and applied "2".
C21_Witness ==
    \E k \in Names :
      /\ store[k].exists /\ store[k].cpu = <<"2">>
      /\ hist[k].relimit
      /\ hist[k].fresh /\ ~hist[k].err
      /\ hist[k].earlier = <<Event("Warning", "CgroupFailed")>>
      /\ cgroups[GetSlicePath(store[k].namespace)].cpuMax = 200000


\* C22: a failure to write the status or to emit an event changes nothing
\* else: every reconcile step, whatever the API server answered, returns
\* the error, changes the host's slices and has its key forgotten or
\* re-queued exactly as a reconcile whose status write and event emission
\* both succeeded.
C22_ReportFailureChangesNothing ==
    [][ (pc = "reconcile" /\ pc' = "done") =>
          \E host \in HostOutcomes :
          \E r \in {reconcile(store, cgroups, cur, host)} :
            /\ host.statusOk /\ host.eventOk
            /\ hist'[cur].err = r.err
            /\ cgroups' = r.cg
            /\ workqueue' = RetryPolicy(workqueue, cur, r.err)
            /\ hist'[cur].cmds = r.cmds ]_vars

\* An enabled declaration has just been reconciled with success and the
\* slice is there, but the status write failed: the key is forgotten.
C22_Witness ==
    /\ pc = "done"
    /\ EnabledUnderReconcile
    /\ hist[cur].fresh
    /\ hist[cur].status = Status(TRUE, <<"Cgroup configured successfully">>)
    /\ ~hist[cur].stored
    /\ hist[cur].recorded
    /\ ~hist[cur].err
    /\ NumRequeues(workqueue, cur) = 0
    /\ cur \notin workqueue.waitingForAdd
    /\ SliceExists(cgroups, store[cur].namespace)


\* C23: Run returns only when the queue is drained of reconciles in
\* flight: once Run has returned (the queue is marked shut down by its
\* deferred ShutDown), no key is in the hands of the worker, so the
\* process never ends under a running reconcile.
C23_RunWaitsForDrain ==
    workqueue.shuttingDown => workqueue.processing = {}


\* strings.ToUpper of the letters a suffix is made of.
Upper(c) ==
    CASE c = "k" -> "K" [] c = "m" -> "M" [] c = "g" -> "G" [] c = "t" -> "T"
      [] c = "i" -> "I" [] OTHER -> c
UpperText(s) == [i \in 1..Len(s) |-> Upper(s[i])]

\* The trimmed text matches ^(\d+(\.\d+)?)(Ki|Mi|Gi|Ti|K|M|G|T)?$ with
\* the suffix in any case and nothing between number and suffix.
MatchesAnyCase(text) ==
    \A s \in {TrimSpace(text)} :
    \A n \in {NumberPrefixLen(s)} :
      /\ n > 0
      /\ ParseUnsignedDecimal(SubSeq(s, 1, n)).ok
      /\ s[1] \in Digits /\ s[n] \in Digits
      /\ UpperText(SubSeq(s, n + 1, Len(s))) \in
            { <<>>, <<"K">>, <<"M">>, <<"G">>, <<"T">>,
              <<"K", "I">>, <<"M", "I">>, <<"G", "I">>, <<"T", "I">> }

\* floor(value * 1024^n) of a text that matches, n told by the suffix
\* letter.
BytesByLetter(text) ==
    LET s == TrimSpace(text)
        n == NumberPrefixLen(s)
        u == ParseUnsignedDecimal(SubSeq(s, 1, n))
    IN  ScaleBytes(u.mant, u.scale,
                   SuffixExp(UpperText(SubSeq(s, n + 1, Len(s)))))

\* C24: ParseMemory accepts exactly the texts that, trimmed, are a number
\* \d+(\.\d+)? directly followed by nothing or by one of Ki, Mi, Gi, Ti,
\* K, M, G, T in any case; for an accepted text it returns
\* floor(value * 1024^n), n told by the suffix letter alone.
C24_AcceptsAnyCaseNoSpace ==
    memOut.done =>
        /\ memOut.ok <=> MatchesAnyCase(memIn)
        /\ memOut.ok => memOut.bytes = BytesByLetter(memIn)


\* 1024^u divides the byte count.
DividesExactly(bytes, u) == \A i \in 1..u : bytes[i] = 0

\* The largest of G (3), M (2), K (1) that divides the count, 0 if none.
LargestSuffix(bytes) ==
    CHOOSE u \in 0..3 :
        /\ DividesExactly(bytes, u)
        /\ \A v \in (u + 1)..3 : ~DividesExactly(bytes, v)

\* The count written as a whole number of 1024^u with the suffix of u.
RenderedWith(bytes, u) ==
    Itoa(LimbsValue(SubSeq(bytes, u + 1, 5))) \o
      (CASE u = 3 -> <<"G">> [] u = 2 -> <<"M">> [] u = 1 -> <<"K">>
         [] OTHER -> <<>>)

\* C25 as stated: every byte count b >= 0 is rendered with the largest
\* suffix among G, M, K that divides it exactly, plain when none does, and
\* the rendering parses back to b.  Fails at b = 0, which every suffix
\* divides and which is rendered "0".
C25_LargestDividingSuffix ==
    memOut.done /\ memOut.ok =>
        /\ memOut.text = RenderedWith(memOut.bytes, LargestSuffix(memOut.bytes))
        /\ memOut.back.ok /\ memOut.back.bytes = memOut.bytes

\* C25 (amended): every byte count b >= 1 is rendered with the largest
\* suffix among G, M, K that divides it exactly, plain decimal when none
\* does, and 0 is rendered as plain "0"; ParseMemory of the rendering is
\* b again.
C25_LosslessRendering ==
    memOut.done /\ memOut.ok =>
        /\ memOut.bytes # <<0, 0, 0, 0, 0>> =>
              memOut.text = RenderedWith(memOut.bytes, LargestSuffix(memOut.bytes))
        /\ memOut.bytes = <<0, 0, 0, 0, 0>> => memOut.text = <<"0">>
        /\ memOut.back.ok /\ memOut.back.bytes = memOut.bytes

\* 1.5Gi has been parsed and rendered as 1536M.
C25_Witness ==
    /\ memOut.done /\ memOut.ok
    /\ memIn = <<"1", ".", "5", "G", "i">>
    /\ memOut.text = <<"1", "5", "3", "6", "M">>
    /\ memOut.back.bytes = memOut.bytes


\* C26: an update event for a declaration targeting namespace N leaves N
\* in the cache exactly when the new object is enabled, changes the entry
\* of no other namespace, and leaves the cache as it was when only limits
\* changed; stated for the runs in which no two observed declarations
\* targeted one namespace.
C26_UpdateFollowsEnabled ==
    [][ \A k \in Names :
          ( /\ phase = "watching"
            /\ api[k].exists /\ api'[k].exists /\ api'[k] # api[k]
            /\ ~dupSeen' ) =>
              /\ (api'[k].namespace \in quotas') <=> api'[k].enabled
              /\ \A n \in Names \ {api'[k].namespace} :
                    (n \in quotas') <=> (n \in quotas)
              /\ (api'[k].enabled = api[k].enabled) => quotas' = quotas ]_vars


C28_NamespaceChangeMovesSlice ==
    \A k \in Names :
      (/\ store[k].exists /\ store[k].enabled
       /\ hist[k].moved # ""
       /\ hist[k].fresh /\ ~hist[k].err
       /\ ~everDup) =>
        /\ SliceExists(cgroups, store[k].namespace)
        /\ ~SliceExists(cgroups, hist[k].moved)


\* The step is a reconcile returning.
ReconcileStep == pc = "reconcile" /\ pc' = "done"

\* The reconcile that returns found its key absent from the informer
\* cache, or its declaration parsed with enabled = false.
AbsentOrDisabled ==
    \/ ~GetByKey(store, cur).exists
    \/ /\ ParseNamespaceQuota(GetByKey(store, cur)).ok
       /\ ~GetByKey(store, cur).enabled

\* Every directory of the cgroup tree is still there with its limits.
SlicesKept ==
    \A p \in DOMAIN cgroups : p \in DOMAIN cgroups' /\ cgroups'[p] = cgroups[p]

\* C29 as stated: a directory is removed only by a reconcile whose key is
\* absent or whose declaration is disabled; every step that is not a
\* reconcile (an event, a delayed add, a dispatch, a release, the
\* shutdown) and every reconcile that fails, dropped or not, leaves every
\* existing directory and every applied limit as it was.
C29_FailedReconcileChangesNothing ==
    [][ /\ ~(DOMAIN cgroups \subseteq DOMAIN cgroups') =>
              ReconcileStep /\ AbsentOrDisabled
        /\ ~ReconcileStep => cgroups' = cgroups
        /\ (ReconcileStep /\ hist'[cur].err) => SlicesKept ]_vars

\* C29 (amended): a directory is removed only by a reconcile whose key is
\* absent or whose declaration is disabled; every step that is not a
\* reconcile leaves the cgroup tree as it was; a reconcile that fails,
\* dropped or not, removes no directory (it may have created the slice
\* and applied the limits of the steps before the failing one).
C29_FailOpen ==
    [][ /\ ~(DOMAIN cgroups \subseteq DOMAIN cgroups') =>
              ReconcileStep /\ AbsentOrDisabled
        /\ ~ReconcileStep => cgroups' = cgroups
        /\ (ReconcileStep /\ hist'[cur].err) =>
              DOMAIN cgroups \subseteq DOMAIN cgroups' ]_vars

\* The key of a declaration was dropped after its retries, the context
\* was cancelled and the process has ended: its slice is there with the
\* cpu limit a failed reconcile wrote.
C29_Witness ==
    /\ pc = "exited"
    /\ workqueue.shuttingDown
    /\ hist["a"].dropped
    /\ store["a"].exists
    /\ SliceExists(cgroups, store["a"].namespace)
    /\ cgroups[GetSlicePath(store["a"].namespace)].cpuMax =
          ParseCPU(store["a"].cpu).quota


\* The declaration of key k is enabled and will not change any more, and
\* the host and the API server have stopped failing.
Healthy(k) ==
    /\ store[k].exists /\ store[k].enabled
    /\ nEvents = MaxEvents
    /\ nFaults = maxRetries + 1

\* The last reconcile of key k succeeded on the object stored: status
\* ready=true written, slice present.
Converged(k) ==
    /\ hist[k].fresh /\ ~hist[k].err
    /\ hist[k].status = Status(TRUE, <<"Cgroup configured successfully">>)
    /\ hist[k].stored
    /\ SliceExists(cgroups, store[k].namespace)

\* C30: once a declaration stays enabled and unchanged and the host
\* commands succeed, a reconcile of it succeeds, its status is ready=true
\* and its slice is present, and it stays so, also when its key had been
\* dropped for its retries: the resync adds the key again.
C30_Converges ==
    \A k \in Names : Healthy(k) ~> [](Converged(k))

\* The key was dropped for its retries while the host failed, and the
\* declaration has since been reconciled with success.
C30_Witness ==
    \E k \in Names :
      /\ Healthy(k)
      /\ hist[k].lost
      /\ Converged(k)


\* The limits of every directory of cg, without subtree_control.
AppliedLimits(cg) ==
    [p \in DOMAIN cg |-> [cpuMax |-> cg[p].cpuMax, memMax |-> cg[p].memMax]]

\* What EnsureSlice does for the declaration under reconcile when the
\* host answers as host.
EnsureSliceUnder(host) ==
    EnsureSlice(cgroups, store[cur].namespace, store[cur].cpu,
                store[cur].memory, host)

\* C31: for the enabled declaration a reconcile is about to handle and
\* every answer of the host: a failing parent step or child mkdir fails
\* EnsureSlice with the cgroup tree untouched and no command issued; a
\* failing write of the child's cgroup.subtree_control changes neither
\* the result nor the commands nor the limits applied; the CPU command is
\* issued before the memory command; a failing CPU step fails EnsureSlice
\* after the child directory was made, with no memory command issued and
\* no memory limit changed.
C31_StepOrderAndFailurePolicy ==
    (pc = "reconcile" /\ EnabledUnderReconcile) =>
      \A host \in HostOutcomes :
        /\ (~host.parentOk \/ ~host.mkdirOk) =>
              /\ EnsureSliceUnder(host).err
              /\ EnsureSliceUnder(host).cg = cgroups
              /\ EnsureSliceUnder(host).cmds = <<>>
        /\ ~host.ctlOk =>
              /\ EnsureSliceUnder(host).err = EnsureSliceUnder(NoFault).err
              /\ EnsureSliceUnder(host).text = EnsureSliceUnder(NoFault).text
              /\ EnsureSliceUnder(host).cmds = EnsureSliceUnder(NoFault).cmds
              /\ AppliedLimits(EnsureSliceUnder(host).cg) =
                    AppliedLimits(EnsureSliceUnder(NoFault).cg)
        /\ \A i, j \in DOMAIN EnsureSliceUnder(host).cmds :
              ( /\ EnsureSliceUnder(host).cmds[i].prop = "CPUQuota"
                /\ EnsureSliceUnder(host).cmds[j].prop = "MemoryMax" ) => i < j
        /\ (~host.cpuOk /\ ParseCPU(store[cur].cpu).ok /\ store[cur].cpu # <<>>) =>
              /\ EnsureSliceUnder(host).err
              /\ EnsureSliceUnder(host).text = "failed to set CPU limit"
              /\ SliceExists(EnsureSliceUnder(host).cg, store[cur].namespace)
              /\ \A c \in DOMAIN EnsureSliceUnder(host).cmds :
                    EnsureSliceUnder(host).cmds[c].prop # "MemoryMax"
              /\ \A p \in DOMAIN cgroups :
                    EnsureSliceUnder(host).cg[p].memMax = cgroups[p].memMax

\* A reconcile has just succeeded and applied both limits although the
\* write of the child's cgroup.subtree_control failed.
C31_Witness ==
    /\ pc = "done"
    /\ EnabledUnderReconcile
    /\ hist[cur].fresh /\ ~hist[cur].err
    /\ hist[cur].status = Status(TRUE, <<"Cgroup configured successfully">>)
    /\ Len(hist[cur].cmds) = 2
    /\ SliceExists(cgroups, store[cur].namespace)
    /\ ~cgroups[GetSlicePath(store[cur].namespace)].ctl
    /\ cgroups[GetSlicePath(store[cur].namespace)].cpuMax =
          ParseCPU(store[cur].cpu).quota


\* The reconcile that returns found its key absent from the informer cache.
AbsentUnderReconcile == ReconcileStep /\ ~GetByKey(store, cur).exists

\* C32: a reconcile of a key absent from the informer cache returns
\* success and forgets the key (it is neither re-queued nor counted as a
\* failure) whether or not the slice could be removed; it asks for no
\* status write; it emits the Normal CgroupRemoved event, and nothing
\* else, exactly when RemoveSlice returned no error, that is when no
\* slice of that name is left (none existed or it was removed).
C32_DeleteAlwaysSucceeds ==
    [][ AbsentUnderReconcile =>
          /\ ~hist'[cur].err
          /\ workqueue' = Forget(workqueue, cur)
          /\ hist'[cur].status = NoStatus
          /\ ~hist'[cur].stored
          /\ hist'[cur].events \in {<<>>, <<Event("Normal", "CgroupRemoved")>>}
          /\ (hist'[cur].events = <<Event("Normal", "CgroupRemoved")>>) <=>
                ~SliceExists(cgroups', cur) ]_vars

\* A reconcile of an absent key has just returned success although the
\* slice could not be removed: no event, no status, nothing re-queued.
C32_Witness ==
    /\ pc = "done"
    /\ ~GetByKey(store, cur).exists
    /\ hist[cur].fresh /\ ~hist[cur].err
    /\ hist[cur].status = NoStatus
    /\ hist[cur].events = <<>>
    /\ SliceExists(cgroups, cur)
    /\ workqueue.failures[cur] = 0
    /\ cur \notin workqueue.waitingForAdd


\* The work queue holds nothing and the worker is idle.
QueueIdle ==
    /\ pc = "idle"
    /\ workqueue.queue = <<>>
    /\ workqueue.dirty = {}
    /\ workqueue.processing = {}
    /\ workqueue.waitingForAdd = {}

\* C33: with declarations that stop changing, no failure and no resync,
\* the work queue becomes empty and stays empty: the status write of a
\* reconcile does not bring its key back into the queue.
C33_QuiescesAfterStatusWrite == <>[]QueueIdle


\* An enabled declaration for namespace n exists at the API server.
DeclaredEnabled(n) ==
    \E k \in Names : api[k].exists /\ api[k].enabled /\ api[k].namespace = n

\* C34: once the informer has made its first list, a namespace that has
\* no enabled declaration at the API server (also one whose declaration
\* was returned by the initial list and deleted or disabled before the
\* informer's list) is eventually out of the cache, unless an enabled
\* declaration for it appears.
C34_NoStaleEntryAfterStart ==
    \A n \in Names :
        (phase = "watching" /\ ~DeclaredEnabled(n))
            ~> (n \notin quotas \/ DeclaredEnabled(n))


\* The reconcile that returns handled an enabled declaration and failed.
EnabledReconcileFailed ==
    ReconcileStep /\ EnabledUnderReconcile /\ hist'[cur].err

\* The reconcile that returns failed at the memory step of EnsureSlice.
FailedAtMemoryStep ==
    /\ EnabledReconcileFailed
    /\ hist'[cur].status.message \in
          { <<"Cgroup error: ", "failed to parse memory limit">>,
            <<"Cgroup error: ", "failed to set memory limit">> }

\* C35 as stated: a reconcile of an enabled declaration that returns an
\* error leaves the cgroup tree as it was.
C35_FailedReconcileLeavesHostUnchanged ==
    [][ EnabledReconcileFailed => cgroups' = cgroups ]_vars

\* C35 (amended): a reconcile of an enabled declaration that returns an
\* error writes ready=false, removes no directory and changes no memory
\* limit, and keeps what the steps before the failing one did: when the
\* memory value does not parse or its command fails, the slice directory
\* exists afterwards and the declared CPU limit is applied.
C35_FailedReconcileKeepsEarlierSteps ==
    [][ /\ EnabledReconcileFailed =>
              /\ hist'[cur].status.written /\ ~hist'[cur].status.ready
              /\ DOMAIN cgroups \subseteq DOMAIN cgroups'
              /\ \A p \in DOMAIN cgroups : cgroups'[p].memMax = cgroups[p].memMax
        /\ FailedAtMemoryStep =>
              /\ SliceExists(cgroups', store[cur].namespace)
              /\ store[cur].cpu # <<>> =>
                    cgroups'[GetSlicePath(store[cur].namespace)].cpuMax =
                        ParseCPU(store[cur].cpu).quota ]_vars

\* A reconcile has just failed on a memory value that does not parse; it
\* made the slice directory and applied the CPU limit, and the status it
\* wrote is ready=false.
C35_Witness ==
    /\ pc = "done"
    /\ EnabledUnderReconcile
    /\ hist[cur].fresh /\ hist[cur].err
    /\ hist[cur].failRun = 1
    /\ hist[cur].status =
          Status(FALSE, <<"Cgroup error: ", "failed to parse memory limit">>)
    /\ Len(hist[cur].cmds) = 1
    /\ SliceExists(cgroups, store[cur].namespace)
    /\ cgroups[GetSlicePath(store[cur].namespace)].cpuMax =
          ParseCPU(store[cur].cpu).quota
    /\ cgroups[GetSlicePath(store[cur].namespace)].memMax = NoMemLimit


\* C36: the requeue count of a key counts its consecutive failures: the
\* reconcile of key K that succeeds, and the one that fails when K has
\* used up maxRetries, set the count of K to zero; a failing reconcile
\* below the budget adds one; every other step (an event that adds K
\* again, a delayed add, a dispatch, a release) leaves it, and no step
\* changes the count of a key other than the one reconciled.
C36_BudgetPerKeyConsecutive ==
    [][ \A k \in Names :
          /\ (ReconcileStep /\ k = cur /\ ~hist'[k].err) =>
                workqueue'.failures[k] = 0
          /\ (ReconcileStep /\ k = cur /\ hist'[k].err
                 /\ workqueue.failures[k] >= maxRetries) =>
                workqueue'.failures[k] = 0 /\ hist'[k].dropped
          /\ (ReconcileStep /\ k = cur /\ hist'[k].err
                 /\ workqueue.failures[k] < maxRetries) =>
                workqueue'.failures[k] = workqueue.failures[k] + 1
          /\ (~ReconcileStep \/ k # cur) =>
                workqueue'.failures[k] = workqueue.failures[k] ]_vars

\* Key a was dropped for its retries, was added again by an event and has
\* failed once since (count 1, not 6), while key b stands at two failures
\* of its own.
C36_Witness ==
    /\ hist["a"].lost /\ ~hist["a"].dropped
    /\ hist["a"].err
    /\ workqueue.failures["a"] = 1
    /\ workqueue.failures["b"] = 2


\* How often key k stands in the queue.
TimesQueued(k) == Cardinality({ i \in DOMAIN workqueue.queue : workqueue.queue[i] = k })

\* An event for key k has been delivered since k was last handed to the
\* worker.
EventPending(k) == hist[k].evPend >= 1

\* C37: an event for key K that is delivered, also while K is being
\* reconciled, is not lost: K is marked and stands in the queue or is in
\* flight, never more than once in the queue however many events came,
\* and K is handed to the worker again after the event; once the events
\* have ended every key is reconciled on the state the store holds and
\* no event is left pending.
C37_NoEventLostInFlight ==
    /\ [](\A k \in Names :
            /\ EventPending(k) => k \in workqueue.dirty
            /\ k \in workqueue.dirty =>
                  (TimesQueued(k) = 1 \/ k \in workqueue.processing)
            /\ TimesQueued(k) <= 1
            /\ k \in workqueue.processing => TimesQueued(k) = 0)
    /\ \A k \in Names : EventPending(k) ~> ~EventPending(k)
    /\ (nEvents = MaxEvents) ~>
          [](\A k \in Names :
                /\ ~EventPending(k)
                /\ store[k].exists => hist[k].fresh)

\* An event that changed the declaration of the key in flight has been
\* delivered after its reconcile read the store: the key is marked, not
\* queued, and what was reconciled is no longer the state of the store.
C37_Witness ==
    /\ pc = "done"
    /\ EventPending(cur)
    /\ cur \in workqueue.processing
    /\ cur \in workqueue.dirty
    /\ TimesQueued(cur) = 0
    /\ ~hist[cur].fresh
    /\ store[cur].exists


\* The worker goroutine has been started.
WorkerStarted == pc \in {"idle", "reconcile", "done", "stopped"}

\* The store holds every declaration the API server holds.
CacheSynced == \A k \in Names : api[k].exists => store[k] = api[k]

\* No reconcile has run: no history of one and nothing on the host.
NeverReconciled ==
    /\ \A k \in Names : ~hist[k].fresh /\ hist[k].cmds = <<>> /\ hist[k].events = <<>>
    /\ cgroups = << >>

\* C38: the worker exists only when the informer cache holds every
\* declaration of the API server, and until it exists no reconcile has
\* run; at the moment the worker is started the key of every stored
\* declaration stands in the queue, once; once the context is cancelled
\* before the cache has synced, Run can only return its error, the worker
\* is never started and no reconcile ever runs; a reconcile that treats
\* its key as deleted does so for a declaration the API server no longer
\* holds.
C38_NoReconcileBeforeSync ==
    /\ [](WorkerStarted => CacheSynced)
    /\ [](pc \in BeforeWorker => NeverReconciled /\ cur = "")
    /\ [][ (pc = "synced" /\ pc' = "idle") =>
              \A k \in Names : store[k].exists => TimesQueued(k) = 1 ]_vars
    /\ [][ (pc = "cancelled" => pc' \in {"cancelled", "failed"})
           /\ (pc = "failed" => pc' \in {"failed", "exited"})
           /\ (pc' = "failed" => workqueue'.shuttingDown) ]_vars
    /\ [][ AbsentUnderReconcile => ~api[cur].exists ]_vars

\* The keys of two declarations were added by the first list before the
\* cache had synced, the worker was started afterwards and has reconciled
\* one of them while the other still stands in the queue.
C38_Witness ==
    /\ pc = "done"
    /\ \A k \in Names : store[k].exists
    /\ hist[cur].fresh /\ ~hist[cur].err
    /\ SliceExists(cgroups, store[cur].namespace)
    /\ \E k \in Names : k # cur /\ TimesQueued(k) = 1 /\ ~hist[k].fresh


\* The plugin takes the object for an enabled quota of namespace n.
PluginQuotaFor(n) == objOut.ns = n /\ n # "" /\ objOut.enabled

\* The controller parses the object as an enabled quota of namespace n.
ControllerQuotaFor(n) ==
    objOut.parsed.ok /\ objOut.parsed.Namespace = n /\ objOut.parsed.Enabled

\* C39: for every declaration object, the plugin takes it for an enabled
\* quota of namespace N exactly when ParseNamespaceQuota succeeds with
\* Namespace = N and Enabled = true.  An object without spec, or with a
\* namespace that is absent, empty or not a string, is a quota for
\* neither; an enabled field that is absent or not a boolean counts as
\* enabled for both.
C39_DaemonsInterpretAlike ==
    (objOut.plugin /\ objOut.agent) =>
        /\ \A n \in Names \cup {""} : PluginQuotaFor(n) <=> ControllerQuotaFor(n)
        /\ (objIn.spec # "map" \/ objIn.namespace \notin {Str("a"), Str("b")}) =>
              /\ ~objOut.parsed.ok
              /\ objOut.ns = ""
        /\ (objIn.spec = "map" /\ objIn.namespace \in {Str("a"), Str("b")}) =>
              /\ objOut.parsed.ok
              /\ objOut.parsed.Namespace = objOut.ns
              /\ objOut.parsed.Enabled = objOut.enabled
              /\ objIn.enabled.kind # "bool" => objOut.enabled
              /\ objIn.enabled.kind = "bool" => objOut.enabled = objIn.enabled.bool

\* An object of namespace a whose enabled field holds the string "false"
\* has been looked at by both: an enabled quota of a for both.
C39_Witness ==
    /\ objOut.plugin /\ objOut.agent
    /\ objIn.namespace = Str("a")
    /\ objIn.enabled = Str("false")
    /\ PluginQuotaFor("a")
    /\ ControllerQuotaFor("a")

============================================================================
